---- MODULE Spec2Model ----
(***************************************************************************)
(* Pipeline engine of CodebaseExplainer: BaseNode / Node (services/nodes.py)*)
(* and Flow (flow.py).  A step is prep -> retry-wrapped exec -> post; the   *)
(* Flow walks the successors tables from its start node.                    *)
(***************************************************************************)
EXTENDS Integers, Sequences, FiniteSets, TLC

\* ---------------------------------------------------------------- bounds
MaxRetries == 2        \* largest max_retries a node is constructed with
MaxHist    == 4        \* cap on Len(history)
MaxEdges   == 2        \* cap on the number of edge registrations
RecursionLimit == 3    \* frames the interpreter allows before RecursionError
MaxChain   == 3        \* most operands of one chain expression

\* ---------------------------------------------------------------- values
Steps       == {"A", "B", "C"}
None        == "None"
Labels      == {"default", "x"}
Preds       == {"isR1", "isR2"}
PostResults == {"r1", "r2"}
SharedKeys  == {"k1", "k2"}
Vals        == {1, 2}

\* Opaque objects are told apart by where they come from: the k-th prep call of a
\* visit returns PrepValue(k), the i-th exec attempt returns ExecValue(i) or raises
\* ExcValue(i), an exec_fallback of a subclass returns FallbackValue.
PrepValue(k)  == <<"p1", "p2">>[k]
ExecValue(i)  == <<"v1", "v2", "v3", "v4">>[i]
ExcValue(i)   == <<"x1", "x2", "x3", "x4">>[i]
FallbackValue == "vf"

\* a Python dict with keys in SharedKeys
Dicts     == UNION {[D -> Vals] : D \in SUBSET SharedKeys}
EmptyDict == [k \in {} |-> 1]
\* what one phase call may write into the mapping it is handed: nothing or one key
Effects   == {d \in Dicts : Cardinality(DOMAIN d) <= 1}

\* dict.update(u)
update(d, u) == [k \in (DOMAIN d) \cup (DOMAIN u) |-> IF k \in DOMAIN u THEN u[k] ELSE d[k]]

\* run's default argument, params = None (kept apart from every dict)
NoParams == [none |-> 0]

\* Python truthiness of the params argument of Flow.run
truthy(params) == params # NoParams /\ DOMAIN params # {}

\* builtin callable(): the keys that are predicates over the post result
callable(action) == action \in Preds

\* action(prep_result) for a callable key
PredHolds(action, r) == (action = "isR1" /\ r = "r1") \/ (action = "isR2" /\ r = "r2")

VARIABLES
  \* BaseNode / Node fields, per node instance
  successors, max_retries, wait, cur_retry, overrides_fallback,
  \* Flow fields
  start, current_node, shared_data, history,
  \* control state of the call in progress
  pc, caller, run_params, node_shared, current, result, prep_res, exec_res, exc, it, prep_result,
  \* what the last call did
  outcome, warned, sel,
  \* history variables used to state the properties
  trace, exec_call, visited, hist0, written, after_reset, cleared, edges_registered,
  \* the _ConditionalTransition object last built by __sub__
  cond,
  \* calls of Node._exec made by concurrent callers on one shared Node: each caller's
  \* position, its range iterator, its own failed attempts, how its call ended,
  \* whether another caller assigned cur_retry since its own assignment, and the
  \* breaches of the retry contract seen so far
  c_pc, c_it, c_failed, c_end, c_raced, c_breaches,
  \* BaseNode.params, per node instance
  node_params,
  \* llm_cache.json on disk, and the LLMService.generate call in progress: its
  \* position, arguments, local cache dict, response_text and how it ended
  cache_store, g_pc, g_prompt, g_use_cache, g_cache, g_response, g_outcome,
  \* what the generate call did: the records it logged, its provider calls, its
  \* opens of the store for writing, the store it started from, whether its first
  \* load failed, where its save failed, and the same facts of the call before it
  g_log, provider_calls, store_writes, g_store0, g_read_failed, g_write_failed, g_prev,
  \* the GitHubService.fetch_repository call in progress: its position, the active
  \* fetch_contents frames, the files dict, the paths whose download failed, how
  \* the call ended, the clock, and of the last contents request the path, the
  \* status, the reset time it carried and the depth it was issued at; the number
  \* of requests issued again after a rate-limit response
  f_pc, f_stack, f_files, f_failed, f_outcome, f_now, f_path, f_status, f_reset, f_depth,
  f_reissues,
  \* the generate_tutorial request in progress: its position, the request body, what
  \* validate_repo did, the response and the number of responses sent
  e_pc, e_request, e_valid, e_response, e_responses,
  \* the TutorialGenerator.generate call in progress: its position, who called it,
  \* the shared dict, the steps it ran, the prep result of the step and how it ended
  t_pc, t_caller, t_shared, t_ran, t_prep_res, t_outcome,
  \* the chain expression a >> b >> ... being evaluated: its operands so far, the
  \* value of the part evaluated so far, and whether every table was empty when its
  \* evaluation began
  chain_ops, chain_val, chain_fresh

nodeVars == <<successors, max_retries, wait, cur_retry, overrides_fallback>>
flowVars == <<start, current_node, shared_data, history>>
ctlVars  == <<pc, caller, run_params, node_shared, current, result, prep_res, exec_res, exc, it, prep_result>>
obsVars  == <<outcome, warned, sel>>
histVars == <<trace, exec_call, visited, hist0, written, after_reset, cleared, edges_registered>>
wireVars == <<cond>>
coreVars == <<nodeVars, flowVars, ctlVars, obsVars, histVars, wireVars>>
callVars == <<c_pc, c_it, c_failed, c_end, c_raced, c_breaches>>
paramVars == <<node_params>>
llmVars == <<cache_store, g_pc, g_prompt, g_use_cache, g_cache, g_response, g_outcome,
             g_log, provider_calls, store_writes, g_store0, g_read_failed, g_write_failed,
             g_prev>>
fetchVars == <<f_pc, f_stack, f_files, f_failed, f_outcome, f_now, f_path, f_status, f_reset,
               f_depth, f_reissues>>
apiVars == <<e_pc, e_request, e_valid, e_response, e_responses,
             t_pc, t_caller, t_shared, t_ran, t_prep_res, t_outcome>>
exprVars == <<chain_ops, chain_val, chain_fresh>>
svcVars == <<llmVars, fetchVars, apiVars, exprVars>>
extVars == <<callVars, paramVars, svcVars>>
vars == <<coreVars, extVars>>

NoOutcome == [kind |-> "none", val |-> None]
NoSel     == [step |-> None, arg |-> None, node |-> None, edge |-> 0, evals |-> <<>>]
NoCall    == [node |-> None, status |-> "none", ret |-> None]
NoCond    == [src |-> None, action |-> None]

\* the mapping handed to the phases of the step in progress
CtxName == IF caller = "flow" THEN "shared_data" ELSE "shared"

\* one entry of trace: a call made during the visit in progress, with the mapping
\* it was handed, its arguments a and b and what it returned or raised
Ev(e, a, b, r) == [ev |-> e, ctx |-> CtxName, a |-> a, b |-> b, r |-> r]

\* the prep calls made so far in the visit in progress
PrepCalls == Cardinality({i \in 1..Len(trace) : trace[i].ev = "prep"})

\* ------------------------------------------------------------ construction
\* Node.__init__ for every node
InitNodes(Ns, Ws, Fs) ==
  /\ successors = [s \in Steps |-> <<>>]
  /\ \E N \in Ns, w \in Ws, f \in Fs :
       /\ max_retries = [s \in Steps |-> N]
       /\ wait = [s \in Steps |-> w]
       /\ overrides_fallback = [s \in Steps |-> f]
  /\ cur_retry = [s \in Steps |-> 0]

\* Flow.__init__(start = A)
InitFlow ==
  /\ start = "A"
  /\ current_node = "A"
  /\ shared_data = EmptyDict
  /\ history = <<>>

InitRest ==
  /\ pc = "idle" /\ caller = None /\ run_params = NoParams /\ node_shared = EmptyDict
  /\ current = None /\ result = None /\ prep_res = None /\ exec_res = None
  /\ exc = None /\ it = 0 /\ prep_result = None
  /\ outcome = NoOutcome /\ warned = FALSE /\ sel = NoSel
  /\ trace = <<>> /\ exec_call = NoCall /\ visited = <<>> /\ hist0 = <<>>
  /\ written = {} /\ after_reset = "no" /\ cleared = {} /\ edges_registered = 0
  /\ cond = NoCond

\* the concurrent callers of one shared Node
Callers == {"t1", "t2"}

\* no concurrent call has been made
InitCalls ==
  /\ c_pc = [t \in Callers |-> "idle"] /\ c_it = [t \in Callers |-> 0]
  /\ c_failed = [t \in Callers |-> 0] /\ c_end = [t \in Callers |-> "none"]
  /\ c_raced = [t \in Callers |-> FALSE] /\ c_breaches = {}

\* nodes.py 12: self.params = {}
InitParams == node_params = [s \in Steps |-> EmptyDict]

\* ------------------------------------------------------- LLMService values
Prompts   == {"p", "q"}
Responses == {"r", "s"}
\* the dicts json.load can give back for a store this program wrote
Caches    == UNION {[D -> Responses] : D \in SUBSET Prompts}

\* llm_cache.json: missing, present but not loadable, or holding a dict
AbsentStore  == [kind |-> "absent", map |-> EmptyDict]
CorruptStore == [kind |-> "corrupt", map |-> EmptyDict]
OkStore(m)   == [kind |-> "ok", map |-> m]
Stores       == {AbsentStore, CorruptStore} \cup {OkStore(m) : m \in Caches}

NoGenerate ==
  [prompt |-> None, use_cache |-> FALSE, write_failed |-> "no", store |-> AbsentStore,
   response |-> None]

\* no generate call has been made; the store is one of stores
InitLLM(stores) ==
  /\ cache_store \in stores
  /\ g_pc = "idle" /\ g_prompt = None /\ g_use_cache = FALSE /\ g_cache = EmptyDict
  /\ g_response = None /\ g_outcome = [kind |-> "none", val |-> None]
  /\ g_log = {} /\ provider_calls = 0 /\ store_writes = 0
  /\ g_store0 = cache_store /\ g_read_failed = FALSE /\ g_write_failed = "no"
  /\ g_prev = NoGenerate

\* no fetch_repository call has been made
InitFetch ==
  /\ f_pc = "idle" /\ f_stack = <<>> /\ f_files = {} /\ f_failed = {}
  /\ f_outcome = [kind |-> "none", val |-> None, cause |-> None]
  /\ f_now = 0 /\ f_path = None /\ f_status = "none" /\ f_reset = 0 /\ f_depth = 0
  /\ f_reissues = 0

NoRequest  == [repo_url |-> None, language |-> None]
NoResponse == [status |-> 0, body |-> None]

\* main.py 31 and tutorial_generator.py 13-15: the services are built, no request
\* has been received
InitApi ==
  /\ e_pc = "idle" /\ e_request = NoRequest /\ e_valid = "none"
  /\ e_response = NoResponse /\ e_responses = 0
  /\ t_pc = "idle" /\ t_caller = None /\ t_shared = NoRequest /\ t_ran = <<>>
  /\ t_prep_res = None /\ t_outcome = [kind |-> "none", val |-> None]

\* no chain expression has been evaluated
InitExpr == chain_ops = <<>> /\ chain_val = None /\ chain_fresh = TRUE

InitSvc(stores) == InitLLM(stores) /\ InitFetch /\ InitApi /\ InitExpr

InitExt == InitCalls /\ InitParams /\ InitSvc({AbsentStore})

\* nodes built with any retry policy, with or without an exec_fallback of their own
Init == InitNodes(0..MaxRetries, {0, 1}, BOOLEAN) /\ InitFlow /\ InitRest /\ InitExt

\* nodes built as Node(): max_retries = 1, wait = 0, the inherited exec_fallback
InitDefault == InitNodes({1}, {0}, {FALSE}) /\ InitFlow /\ InitRest /\ InitExt

\* ------------------------------------------------------------------ wiring
HasKey(table, action) == \E i \in 1..Len(table) : table[i].action = action

SetItem_moves_to_end(table, action, node) ==
  Append(SelectSeq(table, LAMBDA e : e.action # action), [action |-> action, node |-> node])

SetItem_appends(table, action, node) == Append(table, [action |-> action, node |-> node])

\* self.successors[action] = node  (dict assignment: an existing key keeps its place)
SetItem(table, action, node) ==
  IF HasKey(table, action)
  THEN [i \in 1..Len(table) |->
          IF table[i].action = action THEN [action |-> action, node |-> node] ELSE table[i]]
  ELSE Append(table, [action |-> action, node |-> node])

\* BaseNode.next(self, node, action)
next(self, node, action) ==
  /\ pc = "idle"
  /\ warned' = HasKey(successors[self], action)
  /\ successors' = [successors EXCEPT ![self] = SetItem(@, action, node)]
  /\ edges_registered' = edges_registered + 1
  /\ UNCHANGED <<max_retries, wait, cur_retry, overrides_fallback, flowVars, ctlVars,
                 outcome, sel, trace, exec_call, visited, hist0, written, after_reset,
                 cleared, wireVars, extVars>>

\* nodes.py 46-47: self >> other
rshift(self, other) == next(self, other, "default")

\* nodes.py 15-16: set_params(params) replaces the node's params mapping
set_params(self, d) ==
  /\ pc = "idle"
  /\ node_params' = [node_params EXCEPT ![self] = d]
  /\ UNCHANGED <<coreVars, callVars, svcVars>>

isinstance_str_any(action) == TRUE

\* isinstance(action, str): the plain labels are the string keys
isinstance_str(action) == action \in Labels

\* nodes.py 49-51: self - action builds a _ConditionalTransition(self, action)
sub(self, action) ==
  /\ pc = "idle"
  /\ isinstance_str(action)
  /\ cond' = [src |-> self, action |-> action]
  /\ UNCHANGED <<nodeVars, flowVars, ctlVars, obsVars, histVars, extVars>>

ct_rshift_drops_label(tgt) ==
  /\ cond # NoCond
  /\ next(cond.src, tgt, "default")

\* nodes.py 59-60: _ConditionalTransition.__rshift__, self.src.next(tgt, self.action)
ct_rshift(tgt) ==
  /\ cond # NoCond
  /\ next(cond.src, tgt, cond.action)

\* ------------------------------------------------------- leaving a call
ClearLocals ==
  /\ caller' = None /\ run_params' = NoParams /\ current' = None /\ result' = None
  /\ prep_res' = None /\ exec_res' = None /\ exc' = None /\ it' = 0 /\ prep_result' = None

\* an exception that nothing catches leaves the call in progress
Raise(x) ==
  /\ pc' = "idle"
  /\ outcome' = [kind |-> "raised", val |-> x]
  /\ ClearLocals

\* nodes.py 50, 52: self - action for an action that is not a str raises TypeError
sub_raises(self, action) ==
  /\ pc = "idle"
  /\ ~isinstance_str(action)
  /\ Raise("TypeError")
  /\ UNCHANGED <<nodeVars, flowVars, node_shared, warned, sel, histVars, wireVars, extVars>>

WriteCtx_replaces(w) ==
  /\ shared_data' = IF caller = "flow" THEN w ELSE shared_data
  /\ node_shared' = IF caller = "flow" THEN node_shared ELSE w
  /\ written' = written \cup DOMAIN w

\* a phase writes w into the mapping it was handed
WriteCtx(w) ==
  /\ shared_data' = IF caller = "flow" THEN update(shared_data, w) ELSE shared_data
  /\ node_shared' = IF caller = "flow" THEN node_shared ELSE update(node_shared, w)
  /\ written' = written \cup DOMAIN w

\* ---------------------------------------------------------------- Flow.run
merge_params_replaces(params) == IF truthy(params) THEN params ELSE shared_data

\* flow.py 14-15: if params: self.shared_data.update(params)
merge_params(params) == IF truthy(params) THEN update(shared_data, params) ELSE shared_data

history_cleared_by_run == <<>>

\* flow.py 12-18: run leaves self.history as it is
history_at_run == history

run_sets_params(params) ==
  /\ pc = "idle"
  /\ shared_data' = merge_params(params)
  /\ history' = history_at_run
  /\ current' = start
  /\ result' = None
  /\ pc' = "loop" /\ caller' = "flow" /\ run_params' = params
  /\ outcome' = NoOutcome /\ sel' = NoSel
  /\ trace' = <<>> /\ exec_call' = NoCall /\ visited' = <<>> /\ hist0' = history
  /\ written' = IF truthy(params) THEN DOMAIN params ELSE {}
  /\ after_reset' = IF after_reset = "reset" /\ ~truthy(params) THEN "run" ELSE "no"
  /\ cleared' = IF after_reset = "reset" /\ ~truthy(params) THEN cleared ELSE {}
  /\ UNCHANGED <<nodeVars, start, current_node, node_shared, prep_res, exec_res,
                 exc, it, prep_result, warned, edges_registered, wireVars, callVars, svcVars>>
  /\ node_params' = [node_params EXCEPT ![start] = IF truthy(params) THEN params ELSE @]

\* flow.py 14-18: merge params, current = self.start, result = None
run(params) ==
  /\ pc = "idle"
  /\ shared_data' = merge_params(params)
  /\ history' = history_at_run
  /\ current' = start
  /\ result' = None
  /\ pc' = "loop" /\ caller' = "flow" /\ run_params' = params
  /\ outcome' = NoOutcome /\ sel' = NoSel
  /\ trace' = <<>> /\ exec_call' = NoCall /\ visited' = <<>> /\ hist0' = history
  /\ written' = IF truthy(params) THEN DOMAIN params ELSE {}
  /\ after_reset' = IF after_reset = "reset" /\ ~truthy(params) THEN "run" ELSE "no"
  /\ cleared' = IF after_reset = "reset" /\ ~truthy(params) THEN cleared ELSE {}
  /\ UNCHANGED <<nodeVars, start, current_node, node_shared, prep_res, exec_res,
                 exc, it, prep_result, warned, edges_registered, wireVars, extVars>>

history_not_appended == history

\* flow.py 22: self.history.append(current)
history_append_unless_seen ==
  IF \E i \in 1..Len(history) : history[i] = current THEN history ELSE Append(history, current)

history_append == Append(history, current)

\* flow.py 20-22: while current: self.history.append(current)
visit ==
  /\ pc = "loop"
  /\ current # None
  /\ Len(history) < MaxHist
  /\ history' = history_append
  /\ visited' = Append(visited, current)
  /\ trace' = <<Ev("append", current, None, None)>>
  /\ exec_call' = NoCall /\ sel' = NoSel
  /\ run_params' = NoParams
  /\ pc' = "prep1"
  /\ UNCHANGED <<nodeVars, start, current_node, shared_data, caller, node_shared, current,
                 result, prep_res, exec_res, exc, it, prep_result, outcome, warned,
                 hist0, written, after_reset, cleared, edges_registered, wireVars, extVars>>

finish_ignores_successor ==
  /\ pc = "loop"
  /\ pc' = "idle"
  /\ outcome' = [kind |-> "returned", val |-> result]
  /\ ClearLocals
  /\ UNCHANGED <<nodeVars, flowVars, node_shared, warned, sel, histVars, wireVars, extVars>>

\* flow.py 20, 47: the loop ends, return result
finish ==
  /\ pc = "loop"
  /\ current = None
  /\ pc' = "idle"
  /\ outcome' = [kind |-> "returned", val |-> result]
  /\ ClearLocals
  /\ UNCHANGED <<nodeVars, flowVars, node_shared, warned, sel, histVars, wireVars, extVars>>

\* flow.py 25: current.prep(self.shared_data), result dropped
flow_prep_skipped(w) ==
  /\ pc = "prep1"
  /\ pc' = "prep2"
  /\ UNCHANGED <<nodeVars, flowVars, caller, run_params, node_shared, current, result,
                 prep_res, exec_res, exc, it, prep_result, obsVars, histVars, wireVars, extVars>>

flow_prep(w) ==
  /\ pc = "prep1"
  /\ WriteCtx(w)
  /\ trace' = Append(trace, Ev("prep", None, None, PrepValue(PrepCalls + 1)))
  /\ pc' = "prep2"
  /\ UNCHANGED <<nodeVars, start, current_node, history, caller, run_params, current, result,
                 prep_res, exec_res, exc, it, prep_result, obsVars, exec_call, visited, hist0,
                 after_reset, cleared, edges_registered, wireVars, extVars>>

\* flow.py 25: prep raises, nothing in run catches it
flow_prep_raises ==
  /\ pc = "prep1"
  /\ Raise("xprep")
  /\ trace' = Append(trace, Ev("prep_raise", None, None, "xprep"))
  /\ UNCHANGED <<nodeVars, flowVars, node_shared, warned, sel, exec_call, visited, hist0,
                 written, after_reset, cleared, edges_registered, wireVars, extVars>>

reset_keeps_shared == shared_data

\* flow.py 52: self.shared_data = {}
reset_shared == EmptyDict

reset_clears_tables ==
  /\ pc = "idle"
  /\ current_node' = start
  /\ shared_data' = reset_shared
  /\ history' = <<>>
  /\ successors' = [s \in Steps |-> <<>>]
  /\ after_reset' = "reset"
  /\ cleared' = DOMAIN shared_data
  /\ UNCHANGED <<max_retries, wait, cur_retry, overrides_fallback, start, ctlVars, obsVars,
                 trace, exec_call, visited, hist0, written, edges_registered, wireVars, extVars>>

\* flow.py 49-53
reset ==
  /\ pc = "idle"
  /\ current_node' = start
  /\ shared_data' = reset_shared
  /\ history' = <<>>
  /\ after_reset' = "reset"
  /\ cleared' = DOMAIN shared_data
  /\ UNCHANGED <<nodeVars, start, ctlVars, obsVars, trace, exec_call, visited, hist0,
                 written, edges_registered, wireVars, extVars>>

\* ------------------------------------------------- transition selection
Scan_stops_at_false(table, r, i, evals) ==
  IF i > Len(table)
  THEN [node |-> None, edge |-> 0, evals |-> evals]
  ELSE IF callable(table[i].action)
       THEN IF PredHolds(table[i].action, r)
            THEN [node |-> table[i].node, edge |-> i, evals |-> Append(evals, table[i].action)]
            ELSE [node |-> None, edge |-> 0, evals |-> Append(evals, table[i].action)]
       ELSE [node |-> table[i].node, edge |-> i, evals |-> evals]

Scan_predicates_first(table, r, i, evals) ==
  LET preds == {j \in 1..Len(table) : callable(table[j].action)}
      hits  == {j \in preds : PredHolds(table[j].action, r)}
      plain == {j \in 1..Len(table) : ~callable(table[j].action)}
      pick(S) == CHOOSE j \in S : \A k \in S : j <= k
      nth(n) == CHOOSE j \in preds : Cardinality({k \in preds : k <= j}) = n
      called == [n \in 1..Cardinality(preds) |-> table[nth(n)].action]
  IN IF hits # {} THEN [node |-> table[pick(hits)].node, edge |-> pick(hits), evals |-> called]
     ELSE IF plain # {}
          THEN [node |-> table[pick(plain)].node, edge |-> pick(plain), evals |-> called]
          ELSE [node |-> None, edge |-> 0, evals |-> called]

\* flow.py 31-39: the scan of current.successors.items() from entry i on; evals lists
\* the callable keys that were called
RECURSIVE Scan(_, _, _, _)
Scan(table, r, i, evals) ==
  IF i > Len(table)
  THEN [node |-> None, edge |-> 0, evals |-> evals]
  ELSE IF callable(table[i].action)
       THEN IF PredHolds(table[i].action, r)
            THEN [node |-> table[i].node, edge |-> i, evals |-> Append(evals, table[i].action)]
            ELSE Scan(table, r, i + 1, Append(evals, table[i].action))
       ELSE [node |-> table[i].node, edge |-> i, evals |-> evals]

result_not_updated == result

\* flow.py 42: result = prep_result
result_update == prep_result

\* flow.py 31-45: next_node, result = prep_result, current = next_node
select ==
  /\ pc = "select"
  /\ LET s == Scan(successors[current], prep_result, 1, <<>>) IN
       /\ sel' = [step |-> current, arg |-> prep_result, node |-> s.node,
                  edge |-> s.edge, evals |-> s.evals]
       /\ current' = s.node
  /\ result' = result_update
  /\ prep_res' = None /\ exec_res' = None /\ prep_result' = None /\ it' = 0
  /\ pc' = "loop"
  /\ UNCHANGED <<nodeVars, flowVars, caller, run_params, node_shared, exc, outcome, warned,
                 histVars, wireVars, extVars>>

\* -------------------------------------------------------- BaseNode._run
\* nodes.py 37: p = self.prep(shared)
node_prep(w) ==
  /\ pc = "prep2"
  /\ WriteCtx(w)
  /\ prep_res' = PrepValue(PrepCalls + 1)
  /\ trace' = Append(trace, Ev("prep", None, None, PrepValue(PrepCalls + 1)))
  /\ it' = 0
  /\ exec_call' = [node |-> current, status |-> "running", ret |-> None]
  /\ pc' = "for"
  /\ UNCHANGED <<nodeVars, start, current_node, history, caller, run_params, current, result,
                 exec_res, exc, prep_result, obsVars, visited, hist0, after_reset, cleared,
                 edges_registered, wireVars, extVars>>

\* nodes.py 37: prep raises, _run and its callers let it through
node_prep_raises ==
  /\ pc = "prep2"
  /\ Raise("xprep")
  /\ trace' = Append(trace, Ev("prep_raise", None, None, "xprep"))
  /\ UNCHANGED <<nodeVars, flowVars, node_shared, warned, sel, exec_call, visited, hist0,
                 written, after_reset, cleared, edges_registered, wireVars, extVars>>

\* ------------------------------------------------------------ Node._exec
for_next_keeps_counter ==
  /\ pc = "for"
  /\ it < max_retries[current]
  /\ cur_retry' = [cur_retry EXCEPT ![current] = IF it = 0 THEN @ ELSE it]
  /\ it' = it + 1
  /\ pc' = "exec"
  /\ UNCHANGED <<successors, max_retries, wait, overrides_fallback, flowVars, caller,
                 run_params, node_shared, current, result, prep_res, exec_res, exc,
                 prep_result, obsVars, histVars, wireVars, extVars>>

\* nodes.py 73: for self.cur_retry in range(self.max_retries), next value
for_next ==
  /\ pc = "for"
  /\ it < max_retries[current]
  /\ cur_retry' = [cur_retry EXCEPT ![current] = it]
  /\ it' = it + 1
  /\ pc' = "exec"
  /\ UNCHANGED <<successors, max_retries, wait, overrides_fallback, flowVars, caller,
                 run_params, node_shared, current, result, prep_res, exec_res, exc,
                 prep_result, obsVars, histVars, wireVars, extVars>>

for_exhausted_raises ==
  /\ pc = "for"
  /\ it >= max_retries[current]
  /\ Raise("xempty")
  /\ UNCHANGED <<nodeVars, flowVars, node_shared, warned, sel, trace, exec_call, visited, hist0,
                 written, after_reset, cleared, edges_registered, wireVars, extVars>>

\* nodes.py 73: the range is exhausted, _exec falls off its end and returns None
for_exhausted ==
  /\ pc = "for"
  /\ it >= max_retries[current]
  /\ exec_res' = None
  /\ exec_call' = [exec_call EXCEPT !.status = "returned", !.ret = None]
  /\ pc' = "post"
  /\ UNCHANGED <<nodeVars, flowVars, caller, run_params, node_shared, current, result,
                 prep_res, exc, it, prep_result, obsVars, trace, visited, hist0, written,
                 after_reset, cleared, edges_registered, wireVars, extVars>>

exec_returns_without_return ==
  /\ pc = "exec"
  /\ trace' = Append(trace, Ev("exec", prep_res, None, ExecValue(it)))
  /\ pc' = "for"
  /\ UNCHANGED <<nodeVars, flowVars, caller, run_params, node_shared, current, result,
                 prep_res, exec_res, exc, it, prep_result, obsVars, exec_call, visited, hist0,
                 written, after_reset, cleared, edges_registered, wireVars, extVars>>

\* nodes.py 75: return self.exec(prep_res)
exec_returns ==
  /\ pc = "exec"
  /\ exec_res' = ExecValue(it)
  /\ trace' = Append(trace, Ev("exec", prep_res, None, ExecValue(it)))
  /\ exec_call' = [exec_call EXCEPT !.status = "returned", !.ret = ExecValue(it)]
  /\ pc' = "post"
  /\ UNCHANGED <<nodeVars, flowVars, caller, run_params, node_shared, current, result,
                 prep_res, exc, it, prep_result, obsVars, visited, hist0, written,
                 after_reset, cleared, edges_registered, wireVars, extVars>>

\* nodes.py 75-76: self.exec raises, except Exception as e
exec_raises ==
  /\ pc = "exec"
  /\ exc' = ExcValue(it)
  /\ trace' = Append(trace, Ev("exec_raise", prep_res, None, ExcValue(it)))
  /\ pc' = "except"
  /\ UNCHANGED <<nodeVars, flowVars, caller, run_params, node_shared, current, result,
                 prep_res, exec_res, it, prep_result, obsVars, exec_call, visited, hist0,
                 written, after_reset, cleared, edges_registered, wireVars, extVars>>

LastAttempt_off_by_one(n) == cur_retry[n] = max_retries[n]

\* nodes.py 77: if self.cur_retry == self.max_retries - 1
LastAttempt(n) == cur_retry[n] = max_retries[n] - 1

\* nodes.py 77-78: hand the exception to exec_fallback
except_last ==
  /\ pc = "except"
  /\ LastAttempt(current)
  /\ pc' = "fallback"
  /\ UNCHANGED <<nodeVars, flowVars, caller, run_params, node_shared, current, result,
                 prep_res, exec_res, exc, it, prep_result, obsVars, histVars, wireVars, extVars>>

\* nodes.py 79-80: time.sleep(self.wait), then the next iteration
except_wait ==
  /\ pc = "except"
  /\ ~LastAttempt(current)
  /\ wait[current] > 0
  /\ trace' = Append(trace, Ev("sleep", None, None, None))
  /\ exc' = None
  /\ pc' = "for"
  /\ UNCHANGED <<nodeVars, flowVars, caller, run_params, node_shared, current, result,
                 prep_res, exec_res, it, prep_result, obsVars, exec_call, visited, hist0,
                 written, after_reset, cleared, edges_registered, wireVars, extVars>>

except_nowait_sleeps ==
  /\ pc = "except"
  /\ ~LastAttempt(current)
  /\ wait[current] <= 0
  /\ trace' = Append(trace, Ev("sleep", None, None, None))
  /\ exc' = None
  /\ pc' = "for"
  /\ UNCHANGED <<nodeVars, flowVars, caller, run_params, node_shared, current, result,
                 prep_res, exec_res, it, prep_result, obsVars, exec_call, visited, hist0,
                 written, after_reset, cleared, edges_registered, wireVars, extVars>>

\* nodes.py 79: wait is 0, straight to the next iteration
except_nowait ==
  /\ pc = "except"
  /\ ~LastAttempt(current)
  /\ wait[current] <= 0
  /\ exc' = None
  /\ pc' = "for"
  /\ UNCHANGED <<nodeVars, flowVars, caller, run_params, node_shared, current, result,
                 prep_res, exec_res, it, prep_result, obsVars, histVars, wireVars, extVars>>

exec_fallback_swallows ==
  /\ pc = "fallback"
  /\ ~overrides_fallback[current]
  /\ exec_res' = None
  /\ exec_call' = [exec_call EXCEPT !.status = "returned", !.ret = None]
  /\ trace' = Append(trace, Ev("fallback", prep_res, exc, None))
  /\ exc' = None
  /\ pc' = "post"
  /\ UNCHANGED <<nodeVars, flowVars, caller, run_params, node_shared, current, result,
                 prep_res, it, prep_result, obsVars, visited, hist0, written, after_reset,
                 cleared, edges_registered, wireVars, extVars>>

\* nodes.py 69-70: Node.exec_fallback re-raises; nothing up to the caller of run catches it
exec_fallback ==
  /\ pc = "fallback"
  /\ ~overrides_fallback[current]
  /\ trace' = Append(trace, Ev("fallback", prep_res, exc, exc))
  /\ exec_call' = [exec_call EXCEPT !.status = "raised", !.ret = exc]
  /\ Raise(exc)
  /\ UNCHANGED <<nodeVars, flowVars, node_shared, warned, sel, visited, hist0, written,
                 after_reset, cleared, edges_registered, wireVars, extVars>>

exec_fallback_override_discarded ==
  /\ pc = "fallback"
  /\ overrides_fallback[current]
  /\ exec_res' = None
  /\ exec_call' = [exec_call EXCEPT !.status = "returned", !.ret = None]
  /\ trace' = Append(trace, Ev("fallback", prep_res, exc, FallbackValue))
  /\ exc' = None
  /\ pc' = "post"
  /\ UNCHANGED <<nodeVars, flowVars, caller, run_params, node_shared, current, result,
                 prep_res, it, prep_result, obsVars, visited, hist0, written, after_reset,
                 cleared, edges_registered, wireVars, extVars>>

\* nodes.py 78: the exec_fallback of a subclass supplies a value, which _exec returns
exec_fallback_override ==
  /\ pc = "fallback"
  /\ overrides_fallback[current]
  /\ exec_res' = FallbackValue
  /\ exec_call' = [exec_call EXCEPT !.status = "returned", !.ret = FallbackValue]
  /\ trace' = Append(trace, Ev("fallback", prep_res, exc, FallbackValue))
  /\ exc' = None
  /\ pc' = "post"
  /\ UNCHANGED <<nodeVars, flowVars, caller, run_params, node_shared, current, result,
                 prep_res, it, prep_result, obsVars, visited, hist0, written, after_reset,
                 cleared, edges_registered, wireVars, extVars>>

\* nodes.py 39: return self.post(shared, p, e)
post(w, r) ==
  /\ pc = "post"
  /\ WriteCtx(w)
  /\ prep_result' = r
  /\ trace' = Append(trace, Ev("post", prep_res, exec_res, r))
  /\ pc' = IF caller = "flow" THEN "select" ELSE "ret"
  /\ UNCHANGED <<nodeVars, start, current_node, history, caller, run_params, current, result,
                 prep_res, exec_res, exc, it, obsVars, exec_call, visited, hist0,
                 after_reset, cleared, edges_registered, wireVars, extVars>>

post_raises_retried ==
  /\ pc = "post"
  /\ trace' = Append(trace, Ev("post_raise", prep_res, exec_res, "xpost"))
  /\ UNCHANGED <<nodeVars, flowVars, ctlVars, obsVars, exec_call, visited, hist0,
                 written, after_reset, cleared, edges_registered, wireVars, extVars>>

\* nodes.py 39: post raises, _run and its callers let it through
post_raises ==
  /\ pc = "post"
  /\ Raise("xpost")
  /\ trace' = Append(trace, Ev("post_raise", prep_res, exec_res, "xpost"))
  /\ UNCHANGED <<nodeVars, flowVars, node_shared, warned, sel, exec_call, visited, hist0,
                 written, after_reset, cleared, edges_registered, wireVars, extVars>>

node_run_never_warns(self, shared) ==
  /\ pc = "idle"
  /\ warned' = FALSE
  /\ caller' = "node" /\ current' = self /\ node_shared' = shared
  /\ pc' = "prep2"
  /\ outcome' = NoOutcome /\ sel' = NoSel
  /\ trace' = <<>> /\ exec_call' = NoCall /\ written' = {}
  /\ UNCHANGED <<nodeVars, flowVars, run_params, result, prep_res, exec_res, exc, it,
                 prep_result, visited, hist0, after_reset, cleared, edges_registered, wireVars, extVars>>

\* ------------------------------------------------------------ BaseNode.run
\* nodes.py 41-44: warn when the node has successors, then _run(shared)
node_run(self, shared) ==
  /\ pc = "idle"
  /\ warned' = (successors[self] # <<>>)
  /\ caller' = "node" /\ current' = self /\ node_shared' = shared
  /\ pc' = "prep2"
  /\ outcome' = NoOutcome /\ sel' = NoSel
  /\ trace' = <<>> /\ exec_call' = NoCall /\ written' = {}
  /\ UNCHANGED <<nodeVars, flowVars, run_params, result, prep_res, exec_res, exc, it,
                 prep_result, visited, hist0, after_reset, cleared, edges_registered, wireVars, extVars>>

\* nodes.py 44: run returns what _run returned
node_return ==
  /\ pc = "ret"
  /\ pc' = "idle"
  /\ outcome' = [kind |-> "returned", val |-> prep_result]
  /\ ClearLocals
  /\ UNCHANGED <<nodeVars, flowVars, node_shared, warned, sel, histVars, wireVars, extVars>>

\* ------------------------------------- Node._exec called by concurrent callers
\* the Node instance the callers share
Shared == "A"

\* what a step of a concurrent call leaves alone besides cur_retry and callVars
callFrame == <<successors, max_retries, wait, overrides_fallback, flowVars, ctlVars, obsVars,
               histVars, wireVars, paramVars, svcVars>>

\* nodes.py 72: a caller enters _exec on the shared node
call_start(t) ==
  /\ c_pc[t] = "idle"
  /\ c_pc' = [c_pc EXCEPT ![t] = "for"]
  /\ c_it' = [c_it EXCEPT ![t] = 0]
  /\ c_failed' = [c_failed EXCEPT ![t] = 0]
  /\ c_end' = [c_end EXCEPT ![t] = "none"]
  /\ c_raced' = [c_raced EXCEPT ![t] = FALSE]
  /\ UNCHANGED <<callFrame, cur_retry, c_breaches>>

call_for_next_skips_assign(t) ==
  /\ c_pc[t] = "for"
  /\ c_it[t] < max_retries[Shared]
  /\ c_it' = [c_it EXCEPT ![t] = @ + 1]
  /\ c_pc' = [c_pc EXCEPT ![t] = "exec"]
  /\ UNCHANGED <<callFrame, cur_retry, c_raced, c_failed, c_end, c_breaches>>

\* nodes.py 73: the caller's own range iterator yields its next value, which is
\* assigned to the attribute cur_retry of the shared instance
call_for_next(t) ==
  /\ c_pc[t] = "for"
  /\ c_it[t] < max_retries[Shared]
  /\ cur_retry' = [cur_retry EXCEPT ![Shared] = c_it[t]]
  /\ c_it' = [c_it EXCEPT ![t] = @ + 1]
  /\ c_pc' = [c_pc EXCEPT ![t] = "exec"]
  /\ c_raced' = [u \in Callers |->
                  IF u = t THEN FALSE ELSE c_raced[u] \/ c_pc[u] \in {"exec", "except"}]
  /\ UNCHANGED <<callFrame, c_failed, c_end, c_breaches>>

\* nodes.py 73: the caller's range is exhausted, _exec returns None
call_for_exhausted(t) ==
  /\ c_pc[t] = "for"
  /\ c_it[t] >= max_retries[Shared]
  /\ c_pc' = [c_pc EXCEPT ![t] = "idle"]
  /\ c_end' = [c_end EXCEPT ![t] = IF c_failed[t] > 0 THEN "lost" ELSE "returned"]
  /\ c_breaches' = IF c_failed[t] > 0 THEN c_breaches \cup {"lost_failure"} ELSE c_breaches
  /\ UNCHANGED <<callFrame, cur_retry, c_it, c_failed, c_raced>>

\* nodes.py 75: exec returns, _exec returns its value
call_exec_returns(t) ==
  /\ c_pc[t] = "exec"
  /\ c_pc' = [c_pc EXCEPT ![t] = "idle"]
  /\ c_end' = [c_end EXCEPT ![t] = "returned"]
  /\ UNCHANGED <<callFrame, cur_retry, c_it, c_failed, c_raced, c_breaches>>

\* nodes.py 75-76: exec raises
call_exec_raises(t) ==
  /\ c_pc[t] = "exec"
  /\ c_pc' = [c_pc EXCEPT ![t] = "except"]
  /\ c_failed' = [c_failed EXCEPT ![t] = @ + 1]
  /\ UNCHANGED <<callFrame, cur_retry, c_it, c_end, c_raced, c_breaches>>

\* nodes.py 77-78: the shared cur_retry reads max_retries - 1, exec_fallback is
\* invoked and the call ends with what it returns or raises
call_except_last(t) ==
  /\ c_pc[t] = "except"
  /\ LastAttempt(Shared)
  /\ c_pc' = [c_pc EXCEPT ![t] = "idle"]
  /\ c_end' = [c_end EXCEPT ![t] = "fallback"]
  /\ c_breaches' = IF c_failed[t] < max_retries[Shared]
                   THEN c_breaches \cup {"early_fallback"} ELSE c_breaches
  /\ UNCHANGED <<callFrame, cur_retry, c_it, c_failed, c_raced>>

\* nodes.py 77, 79-80: the shared cur_retry reads another value; sleep when
\* wait > 0, then the caller's next iteration
call_except_retry(t) ==
  /\ c_pc[t] = "except"
  /\ ~LastAttempt(Shared)
  /\ c_pc' = [c_pc EXCEPT ![t] = "for"]
  /\ UNCHANGED <<callFrame, cur_retry, c_it, c_failed, c_end, c_raced, c_breaches>>

\* ---------------------------------------------------------- specifications
\* the pipeline is assembled before the Flow first runs
Assembling == pc = "idle" /\ Len(history) = 0 /\ outcome.kind = "none"

\* Node._exec and the hand-over to exec_fallback
RetrySteps ==
  \/ for_next \/ for_exhausted \/ exec_returns \/ exec_raises
  \/ except_last \/ except_wait \/ except_nowait
  \/ exec_fallback \/ exec_fallback_override

\* Flow.run over steps with any retry policy; phases leave the context alone
Next ==
  \/ \E s \in Steps, t \in Steps :
       Assembling /\ edges_registered < MaxEdges /\ rshift(s, t)
  \/ run(NoParams)
  \/ visit \/ finish \/ flow_prep(EmptyDict) \/ flow_prep_raises
  \/ node_prep(EmptyDict) \/ node_prep_raises
  \/ RetrySteps
  \/ \E r \in PostResults : post(EmptyDict, r)
  \/ post_raises
  \/ select

Spec == Init /\ [][Next]_vars

\* Flow.run and Flow.reset over default nodes whose phases write the shared context
NextData ==
  \/ \E s \in Steps, t \in Steps :
       Assembling /\ edges_registered < MaxEdges /\ rshift(s, t)
  \/ \E params \in Dicts \cup {NoParams} : run(params)
  \/ visit \/ finish
  \/ \E w \in Effects : flow_prep(w)
  \/ flow_prep_raises
  \/ \E w \in Effects : node_prep(w)
  \/ node_prep_raises
  \/ for_next \/ exec_returns \/ exec_raises \/ except_last \/ exec_fallback
  \/ \E w \in Effects : post(w, "r1")
  \/ post_raises
  \/ select \/ reset

SpecData == InitDefault /\ [][NextData]_vars

\* Flow.run over default nodes whose phases do not raise, wired under any keys
NextRoute ==
  \/ \E s \in Steps, t \in Steps, a \in Labels \cup Preds :
       Assembling /\ edges_registered < MaxEdges /\ next(s, t, a)
  \/ run(NoParams)
  \/ visit \/ finish \/ flow_prep(EmptyDict) \/ node_prep(EmptyDict)
  \/ for_next \/ exec_returns
  \/ \E r \in PostResults : post(EmptyDict, r)
  \/ select

SpecRoute == InitDefault /\ [][NextRoute]_vars

\* a single node run directly through BaseNode.run
NextNode ==
  \/ \E s \in Steps, m \in Dicts : node_run(s, m)
  \/ node_return
  \/ \E w \in Effects : node_prep(w)
  \/ node_prep_raises
  \/ RetrySteps
  \/ \E w \in Effects, r \in PostResults : post(w, r)
  \/ post_raises

SpecNode == Init /\ [][NextNode]_vars

\* runs and resets of one Flow over steps with any retry policy
NextReuse ==
  \/ \E s \in Steps, t \in Steps :
       Assembling /\ edges_registered < MaxEdges /\ rshift(s, t)
  \/ run(NoParams)
  \/ visit \/ finish \/ flow_prep(EmptyDict) \/ node_prep(EmptyDict)
  \/ RetrySteps
  \/ post(EmptyDict, "r1")
  \/ select \/ reset

SpecReuse == Init /\ [][NextReuse]_vars

\* assembling a pipeline with >>, - and next, before any Flow runs
NextWire ==
  \/ \E s \in Steps, t \in Steps : edges_registered < MaxEdges /\ rshift(s, t)
  \/ \E s \in Steps, a \in Labels : sub(s, a)
  \/ \E s \in Steps, x \in Preds : sub_raises(s, x)
  \/ \E t \in Steps : edges_registered < MaxEdges /\ ct_rshift(t)

SpecWire == InitDefault /\ [][NextWire]_vars

\* steps are given params while the pipeline is assembled; the Flow then runs with
\* and without initial params and is reset
NextParams ==
  \/ \E s \in Steps, t \in Steps :
       Assembling /\ edges_registered < MaxEdges /\ rshift(s, t)
  \/ \E s \in Steps, d \in {EmptyDict, [k1 |-> 2]} : Assembling /\ set_params(s, d)
  \/ \E p \in {NoParams, [k1 |-> 1]} : run(p)
  \/ visit \/ finish \/ flow_prep(EmptyDict) \/ node_prep(EmptyDict)
  \/ for_next \/ exec_returns
  \/ post(EmptyDict, "r1")
  \/ select \/ reset

SpecParams == InitDefault /\ [][NextParams]_vars

\* ------------------------------------------------------ LLMService.generate
\* what the generate call leaves alone
llmFrame == <<coreVars, callVars, paramVars, fetchVars, apiVars, exprVars>>

\* llm_service.py 65-71 and 123-129: cache = {}, then json.load of the store when
\* the file exists; a failure of the load leaves cache = {}
LoadCache(store) == IF store.kind = "ok" THEN store.map ELSE EmptyDict
LoadFails(store) == store.kind = "corrupt"

\* cache[prompt] = response_text
SetEntry(cache, k, v) == [x \in (DOMAIN cache) \cup {k} |-> IF x = k THEN v ELSE cache[x]]

\* llm_service.py 56-60 and 78: the call starts and logs the prompt
generate(prompt, use_cache) ==
  /\ g_pc \in {"idle", "done"}
  /\ g_prev' = IF g_pc = "done"
                THEN [prompt |-> g_prompt, use_cache |-> g_use_cache,
                      write_failed |-> g_write_failed, store |-> g_store0,
                      response |-> g_response]
                ELSE NoGenerate
  /\ g_prompt' = prompt /\ g_use_cache' = use_cache
  /\ g_cache' = EmptyDict /\ g_response' = None
  /\ g_outcome' = [kind |-> "none", val |-> None]
  /\ g_log' = {"PROMPT"} /\ provider_calls' = 0 /\ store_writes' = 0
  /\ g_store0' = cache_store /\ g_read_failed' = FALSE /\ g_write_failed' = "no"
  /\ g_pc' = IF use_cache THEN "check" ELSE "provider"
  /\ UNCHANGED <<cache_store, llmFrame>>

check_cache_ignores_hit ==
  /\ g_pc = "check"
  /\ g_cache' = LoadCache(cache_store)
  /\ g_read_failed' = LoadFails(cache_store)
  /\ g_log' = g_log \cup (IF LoadFails(cache_store) THEN {"load_warning"} ELSE {})
  /\ g_pc' = "provider"
  /\ UNCHANGED <<cache_store, g_prompt, g_use_cache, g_response, g_outcome, provider_calls,
                 store_writes, g_store0, g_write_failed, g_prev, llmFrame>>

check_cache_load_raises ==
  /\ g_pc = "check"
  /\ g_cache' = LoadCache(cache_store)
  /\ g_read_failed' = LoadFails(cache_store)
  /\ IF LoadFails(cache_store)
     THEN /\ g_log' = g_log \cup {"generation_failed"}
          /\ g_outcome' = [kind |-> "raised", val |-> "LLM generation failed"]
          /\ g_pc' = "done"
     ELSE IF g_prompt \in DOMAIN LoadCache(cache_store)
     THEN /\ g_log' = g_log \cup {"CACHE HIT"}
          /\ g_outcome' = [kind |-> "returned", val |-> LoadCache(cache_store)[g_prompt]]
          /\ g_pc' = "done"
     ELSE /\ g_log' = g_log
          /\ g_outcome' = g_outcome
          /\ g_pc' = "provider"
  /\ UNCHANGED <<cache_store, g_prompt, g_use_cache, g_response, provider_calls,
                 store_writes, g_store0, g_write_failed, g_prev, llmFrame>>

\* llm_service.py 63-76: load the store (a failed load is logged and leaves the
\* cache empty), and return the entry of the prompt when there is one
check_cache ==
  /\ g_pc = "check"
  /\ g_cache' = LoadCache(cache_store)
  /\ g_read_failed' = LoadFails(cache_store)
  /\ IF g_prompt \in DOMAIN LoadCache(cache_store)
     THEN /\ g_log' = g_log \cup {"CACHE HIT"}
          /\ g_outcome' = [kind |-> "returned", val |-> LoadCache(cache_store)[g_prompt]]
          /\ g_pc' = "done"
     ELSE /\ g_log' = g_log \cup (IF LoadFails(cache_store) THEN {"load_warning"} ELSE {})
          /\ g_outcome' = g_outcome
          /\ g_pc' = "provider"
  /\ UNCHANGED <<cache_store, g_prompt, g_use_cache, g_response, provider_calls,
                 store_writes, g_store0, g_write_failed, g_prev, llmFrame>>

\* llm_service.py 79-118 and 139: the provider answers; without caching the answer
\* is returned at once
provider_returns(r) ==
  /\ g_pc = "provider"
  /\ provider_calls' = provider_calls + 1
  /\ g_response' = r
  /\ g_log' = g_log \cup {"RESPONSE"}
  /\ IF g_use_cache
     THEN g_pc' = "save" /\ g_outcome' = g_outcome
     ELSE g_pc' = "done" /\ g_outcome' = [kind |-> "returned", val |-> r]
  /\ UNCHANGED <<cache_store, g_prompt, g_use_cache, g_cache, store_writes, g_store0,
                 g_read_failed, g_write_failed, g_prev, llmFrame>>

\* llm_service.py 82-115 and 141-143: the provider call raises; the failure is
\* logged and raised again as "LLM generation failed"
provider_raises ==
  /\ g_pc = "provider"
  /\ provider_calls' = provider_calls + 1
  /\ g_log' = g_log \cup {"generation_failed"}
  /\ g_outcome' = [kind |-> "raised", val |-> "LLM generation failed"]
  /\ g_pc' = "done"
  /\ UNCHANGED <<cache_store, g_prompt, g_use_cache, g_cache, g_response, store_writes,
                 g_store0, g_read_failed, g_write_failed, g_prev, llmFrame>>

save_cache_from_first_read ==
  /\ g_pc = "save"
  /\ g_cache' = SetEntry(g_cache, g_prompt, g_response)
  /\ store_writes' = store_writes + 1
  /\ cache_store' = OkStore(g_cache')
  /\ g_outcome' = [kind |-> "returned", val |-> g_response]
  /\ g_pc' = "done"
  /\ UNCHANGED <<g_prompt, g_use_cache, g_response, g_log, provider_calls, g_store0,
                 g_read_failed, g_write_failed, g_prev, llmFrame>>

\* llm_service.py 121-135 and 139: load the store again, add the entry, and write
\* the whole dict back
save_cache ==
  /\ g_pc = "save"
  /\ g_cache' = SetEntry(LoadCache(cache_store), g_prompt, g_response)
  /\ store_writes' = store_writes + 1
  /\ cache_store' = OkStore(g_cache')
  /\ g_outcome' = [kind |-> "returned", val |-> g_response]
  /\ g_pc' = "done"
  /\ UNCHANGED <<g_prompt, g_use_cache, g_response, g_log, provider_calls, g_store0,
                 g_read_failed, g_write_failed, g_prev, llmFrame>>

\* where the write of lines 134-135 can fail: open(cache_file, 'w') itself, leaving
\* the file as it was; json.dump or the flush after open has truncated the file,
\* leaving a prefix of the new text; or the close after all of the text went out
WriteFailures == {"open", "dump", "close"}

StoreAfterFailure(where, old, cache) ==
  CASE where = "open" -> old
    [] where = "dump" -> CorruptStore
    [] where = "close" -> OkStore(cache)

save_cache_fails_raises(where) ==
  /\ g_pc = "save"
  /\ g_cache' = SetEntry(LoadCache(cache_store), g_prompt, g_response)
  /\ store_writes' = store_writes + 1
  /\ g_write_failed' = where
  /\ cache_store' = StoreAfterFailure(where, cache_store, g_cache')
  /\ g_log' = g_log \cup {"generation_failed"}
  /\ g_outcome' = [kind |-> "raised", val |-> "LLM generation failed"]
  /\ g_pc' = "done"
  /\ UNCHANGED <<g_prompt, g_use_cache, g_response, provider_calls, g_store0,
                 g_read_failed, g_prev, llmFrame>>

\* llm_service.py 121-139: the write fails; the failure is logged and the response
\* is returned all the same
save_cache_fails(where) ==
  /\ g_pc = "save"
  /\ g_cache' = SetEntry(LoadCache(cache_store), g_prompt, g_response)
  /\ store_writes' = store_writes + 1
  /\ g_write_failed' = where
  /\ cache_store' = StoreAfterFailure(where, cache_store, g_cache')
  /\ g_log' = g_log \cup {"save_failed"}
  /\ g_outcome' = [kind |-> "returned", val |-> g_response]
  /\ g_pc' = "done"
  /\ UNCHANGED <<g_prompt, g_use_cache, g_response, provider_calls, g_store0,
                 g_read_failed, g_prev, llmFrame>>

NextLLM ==
  \/ \E prompt \in Prompts, use_cache \in BOOLEAN : generate(prompt, use_cache)
  \/ check_cache
  \/ \E r \in Responses : provider_returns(r)
  \/ provider_raises
  \/ save_cache
  \/ \E where \in WriteFailures : save_cache_fails(where)

\* generate called again and again on a store found in any condition
InitCache ==
  InitNodes({1}, {0}, {FALSE}) /\ InitFlow /\ InitRest /\ InitCalls /\ InitParams
  /\ InitSvc(Stores)

SpecLLM == InitCache /\ [][NextLLM]_vars

\* llm_service.py 122 ("Load cache again to avoid overwrites"): while the provider
\* is being asked, another user of the cache file saves an entry of its own
other_writer(k, v) ==
  /\ g_pc = "provider"
  /\ cache_store' = OkStore(SetEntry(LoadCache(cache_store), k, v))
  /\ UNCHANGED <<g_pc, g_prompt, g_use_cache, g_cache, g_response, g_outcome, g_log,
                 provider_calls, store_writes, g_store0, g_read_failed, g_write_failed,
                 g_prev, llmFrame>>

NextShared ==
  \/ NextLLM
  \/ \E k \in Prompts, v \in Responses : other_writer(k, v)

SpecShared == InitCache /\ [][NextShared]_vars

\* ------------------------------------------- GitHubService.fetch_repository
\* what the fetch_repository call leaves alone
fetchFrame == <<coreVars, callVars, paramVars, llmVars, apiVars, exprVars>>

\* the repository crawled: a file and a directory at the top, a file in the directory
RootPath == ""
Listing(path) ==
  IF path = RootPath
  THEN <<[type |-> "file", path |-> "a"], [type |-> "dir", path |-> "d"]>>
  ELSE <<[type |-> "file", path |-> "d/b"]>>

\* an active call of fetch_contents: before its request, iterating over the items
\* of the listing, or waiting in 'return fetch_contents(path)'
Frame(path, state, todo) == [path |-> path, state |-> state, todo |-> todo]
Top == f_stack[Len(f_stack)]
SetTop(fr) == [f_stack EXCEPT ![Len(f_stack)] = fr]

\* the frames left when the top frame returns: its callers waiting in
\* 'return fetch_contents(path)' return with it
RECURSIVE Unwind(_)
Unwind(st) ==
  IF st = <<>> THEN <<>>
  ELSE IF st[Len(st)].state = "tail" THEN Unwind(SubSeq(st, 1, Len(st) - 1))
  ELSE st

\* github_service.py 290-291: whatever is raised inside is raised again as
\* "Failed to fetch repository: ..."
FetchRaise(cause) ==
  /\ f_outcome' = [kind |-> "raised", val |-> "Failed to fetch repository", cause |-> cause]
  /\ f_stack' = <<>>
  /\ f_pc' = "done"

\* a call of fetch_contents(path) made at the current depth: a new frame, or
\* RecursionError when the interpreter allows no more frames
CallFetchContents(st, path) ==
  IF Len(st) < RecursionLimit
  THEN /\ f_stack' = Append(st, Frame(path, "request", <<>>))
       /\ f_pc' = "run"
       /\ f_outcome' = f_outcome
  ELSE FetchRaise("RecursionError")

\* github_service.py 176-177 and 270: the crawl starts at the top of the repository
fetch_repository ==
  /\ f_pc \in {"idle", "done"}
  /\ f_pc' = "run"
  /\ f_stack' = <<Frame(RootPath, "request", <<>>)>>
  /\ f_files' = {} /\ f_failed' = {}
  /\ f_outcome' = [kind |-> "none", val |-> None, cause |-> None]
  /\ f_now' = 0 /\ f_path' = None /\ f_status' = "none" /\ f_reset' = 0 /\ f_depth' = 0
  /\ f_reissues' = 0
  /\ UNCHANGED fetchFrame

\* github_service.py 184 and 204-208: the contents request is answered with 200
contents_ok ==
  /\ f_pc = "run" /\ Top.state = "request"
  /\ f_path' = Top.path /\ f_status' = "200" /\ f_depth' = Len(f_stack)
  /\ f_stack' = SetTop(Frame(Top.path, "items", Listing(Top.path)))
  /\ UNCHANGED <<f_pc, f_files, f_failed, f_outcome, f_now, f_reset, f_reissues, fetchFrame>>

\* time.sleep(max(reset_time - time.time(), 0) + 1)
WaitTime(reset_time, now) == (IF reset_time - now > 0 THEN reset_time - now ELSE 0) + 1

contents_rate_limited_no_sleep(reset_time) ==
  /\ f_pc = "run" /\ Top.state = "request"
  /\ f_path' = Top.path /\ f_status' = "rate_limit" /\ f_depth' = Len(f_stack)
  /\ f_reset' = reset_time
  /\ f_now' = f_now
  /\ f_reissues' = IF Len(f_stack) < RecursionLimit THEN f_reissues + 1 ELSE f_reissues
  /\ CallFetchContents(SetTop(Frame(Top.path, "tail", <<>>)), Top.path)
  /\ UNCHANGED <<f_files, f_failed, fetchFrame>>

\* github_service.py 186-191: 403 with 'rate limit exceeded': sleep until the
\* reset time has passed, then call fetch_contents(path) again and return its result
contents_rate_limited(reset_time) ==
  /\ f_pc = "run" /\ Top.state = "request"
  /\ f_path' = Top.path /\ f_status' = "rate_limit" /\ f_depth' = Len(f_stack)
  /\ f_reset' = reset_time
  /\ f_now' = f_now + WaitTime(reset_time, f_now)
  /\ f_reissues' = IF Len(f_stack) < RecursionLimit THEN f_reissues + 1 ELSE f_reissues
  /\ CallFetchContents(SetTop(Frame(Top.path, "tail", <<>>)), Top.path)
  /\ UNCHANGED <<f_files, f_failed, fetchFrame>>

contents_fails_skipped(status) ==
  /\ f_pc = "run" /\ Top.state = "request"
  /\ f_path' = Top.path /\ f_status' = status /\ f_depth' = Len(f_stack)
  /\ f_stack' = SetTop(Frame(Top.path, "items", <<>>))
  /\ UNCHANGED <<f_pc, f_files, f_failed, f_outcome, f_now, f_reset, f_reissues, fetchFrame>>

\* github_service.py 193-202: 404, or any other status that is not 200, raises
contents_fails(status) ==
  /\ f_pc = "run" /\ Top.state = "request"
  /\ f_path' = Top.path /\ f_status' = status /\ f_depth' = Len(f_stack)
  /\ FetchRaise(status)
  /\ UNCHANGED <<f_files, f_failed, f_now, f_reset, f_reissues, fetchFrame>>

\* the item the top frame's loop is at
AtItem(type) ==
  /\ f_pc = "run" /\ Top.state = "items" /\ Top.todo # <<>>
  /\ Head(Top.todo).type = type

\* github_service.py 224-240 and 244-260: the file is downloaded and stored
download_ok ==
  /\ AtItem("file")
  /\ f_files' = f_files \cup {Head(Top.todo).path}
  /\ f_stack' = SetTop(Frame(Top.path, "items", Tail(Top.todo)))
  /\ UNCHANGED <<f_pc, f_failed, f_outcome, f_now, f_path, f_status, f_reset, f_depth,
                 f_reissues, fetchFrame>>

\* github_service.py 241-242 and 263-264: a download answered with a status that
\* is not 200 is printed and the loop goes on
download_fails ==
  /\ AtItem("file")
  /\ f_failed' = f_failed \cup {Head(Top.todo).path}
  /\ f_stack' = SetTop(Frame(Top.path, "items", Tail(Top.todo)))
  /\ UNCHANGED <<f_pc, f_files, f_outcome, f_now, f_path, f_status, f_reset, f_depth,
                 f_reissues, fetchFrame>>

\* github_service.py 266-267: fetch_contents(item_path) for a directory
enter_dir ==
  /\ AtItem("dir")
  /\ CallFetchContents(SetTop(Frame(Top.path, "items", Tail(Top.todo))), Head(Top.todo).path)
  /\ UNCHANGED <<f_files, f_failed, f_now, f_path, f_status, f_reset, f_depth, f_reissues,
                 fetchFrame>>

\* the loop of the top frame is over: fetch_contents returns, and when it was the
\* outermost call fetch_repository returns the files (github_service.py 272-288)
contents_return ==
  /\ f_pc = "run" /\ Top.state = "items" /\ Top.todo = <<>>
  /\ f_stack' = Unwind(SubSeq(f_stack, 1, Len(f_stack) - 1))
  /\ IF f_stack' = <<>>
     THEN /\ f_pc' = "done"
          /\ f_outcome' = [kind |-> "returned", val |-> f_files, cause |-> None]
     ELSE UNCHANGED <<f_pc, f_outcome>>
  /\ UNCHANGED <<f_files, f_failed, f_now, f_path, f_status, f_reset, f_depth, f_reissues,
                 fetchFrame>>

\* the X-RateLimit-Reset header: missing (0), or a time after the request
ResetTimes(now) == {0, now + 2}

NextFetch ==
  \/ fetch_repository
  \/ contents_ok
  \/ \E reset_time \in ResetTimes(f_now) : contents_rate_limited(reset_time)
  \/ \E status \in {"404", "500"} : contents_fails(status)
  \/ download_ok \/ download_fails
  \/ enter_dir
  \/ contents_return

SpecFetch == InitDefault /\ [][NextFetch]_vars

\* ------------------------------ TutorialGenerator and generate_tutorial
\* what a step of the endpoint or of the generator leaves alone
apiFrame == <<coreVars, callVars, paramVars, llmVars, fetchVars, exprVars>>

\* tutorial_generator.py 15: the six steps, in the order they are chained
Workflow == <<"FetchRepo", "IdentifyAbstractions", "AnalyzeRelationships", "OrderChapters",
              "WriteChapters", "CombineTutorial">>

\* nodes.py 18-22 and 46-47: self >> other registers other and returns other
RshiftReturn_self(self, other) == self

RshiftReturn(self, other) == other

\* the value of a >> b >> ... >> z, evaluated from the left
RECURSIVE Chain(_)
Chain(nodes) ==
  IF Len(nodes) = 1 THEN nodes[1]
  ELSE Chain(<<RshiftReturn(nodes[1], nodes[2])>> \o SubSeq(nodes, 3, Len(nodes)))

\* tutorial_generator.py 15: self.flow
TGFlow == Chain(Workflow)

\* the steps overriding prep: only the first definition of CombineTutorial (nodes.py
\* 280-281) does, and the second definition (nodes.py 390) replaces it
OverridesPrep(node) == FALSE

\* tutorial_generator.py 1-10: the names the module imports; time is not one of them
TimeImported == FALSE

RequestUrls == {"u1", "u2"}
Languages   == {"english", "french"}

\* tutorial_generator.py 17-43: generate builds the shared dict
tg_generate(who, repo_url, language) ==
  /\ t_pc \in {"idle", "done"}
  /\ t_pc' = "run" /\ t_caller' = who
  /\ t_shared' = [repo_url |-> repo_url, language |-> language]
  /\ t_ran' = <<>> /\ t_prep_res' = None
  /\ t_outcome' = [kind |-> "none", val |-> None]

\* a caller other than the endpoint calls generate
generate_direct(repo_url, language) ==
  /\ e_pc = "idle"
  /\ tg_generate("direct", repo_url, language)
  /\ UNCHANGED <<e_pc, e_request, e_valid, e_response, e_responses, apiFrame>>

\* tutorial_generator.py 46 with nodes.py 36-37 and 41-44: self.flow.run(shared) is
\* BaseNode.run of the node self.flow; it runs that node only, starting with its prep
tg_run ==
  /\ t_pc = "run"
  /\ t_ran' = Append(t_ran, TGFlow)
  /\ t_prep_res' = IF OverridesPrep(TGFlow) THEN "prep" ELSE None
  /\ t_pc' = "exec"
  /\ UNCHANGED <<e_pc, e_request, e_valid, e_response, e_responses, t_caller, t_shared,
                 t_outcome, apiFrame>>

\* nodes.py 72-80 and 394-395 with tutorial_generator.py 48-56: exec subscripts
\* prep_res, which raises for None; were it to return, post returns None and
\* building the result dict evaluates time.strftime; every exception is raised
\* again as "Failed to generate tutorial"
tg_exec ==
  /\ t_pc = "exec"
  /\ t_outcome' =
       IF t_prep_res = None
       THEN [kind |-> "raised", val |-> "Failed to generate tutorial: TypeError"]
       ELSE IF ~TimeImported
       THEN [kind |-> "raised", val |-> "Failed to generate tutorial: NameError"]
       ELSE [kind |-> "returned", val |-> [status |-> "success", tutorial |-> None]]
  /\ t_pc' = "done"
  /\ UNCHANGED <<e_pc, e_request, e_valid, e_response, e_responses, t_caller, t_shared,
                 t_ran, t_prep_res, apiFrame>>

\* main.py 50-52: a request arrives
generate_tutorial(repo_url, language) ==
  /\ e_pc \in {"idle", "done"} /\ t_pc \in {"idle", "done"}
  /\ e_pc' = "validate"
  /\ e_request' = [repo_url |-> repo_url, language |-> language]
  /\ e_valid' = "none" /\ e_response' = NoResponse /\ e_responses' = 0
  /\ UNCHANGED <<t_pc, t_caller, t_shared, t_ran, t_prep_res, t_outcome, apiFrame>>

\* main.py 68-69: every exception raised in the handler, the HTTPException of line
\* 55 included, is answered as status 500 with str(e) as the detail
Respond500(detail) ==
  /\ e_response' = [status |-> 500, body |-> detail]
  /\ e_responses' = e_responses + 1
  /\ e_pc' = "done"

validate_repo_fails_answers_200(v) ==
  /\ e_pc = "validate" /\ v \in {"false", "raises"}
  /\ e_valid' = v
  /\ e_response' = [status |-> 200, body |-> None]
  /\ e_responses' = e_responses + 1
  /\ e_pc' = "done"
  /\ UNCHANGED <<e_request, t_pc, t_caller, t_shared, t_ran, t_prep_res, t_outcome, apiFrame>>

\* main.py 54-55 and 68-69: validate_repo returns False or raises
validate_repo_fails(v) ==
  /\ e_pc = "validate" /\ v \in {"false", "raises"}
  /\ e_valid' = v
  /\ Respond500(IF v = "false" THEN "400: Invalid repository URL"
                ELSE "Failed to validate repository")
  /\ UNCHANGED <<e_request, t_pc, t_caller, t_shared, t_ran, t_prep_res, t_outcome, apiFrame>>

\* main.py 54-64: validate_repo returns True and generate is called
validate_repo_ok ==
  /\ e_pc = "validate"
  /\ e_valid' = "true"
  /\ e_pc' = "generate"
  /\ tg_generate("endpoint", e_request.repo_url, e_request.language)
  /\ UNCHANGED <<e_request, e_response, e_responses, apiFrame>>

\* main.py 58-69: generate raised, or returned a dict, which await rejects with
\* TypeError; either way the except clause answers
answer ==
  /\ e_pc = "generate" /\ t_pc = "done" /\ t_caller = "endpoint"
  /\ Respond500(IF t_outcome.kind = "raised" THEN t_outcome.val ELSE "TypeError: await")
  /\ UNCHANGED <<e_request, e_valid, t_pc, t_caller, t_shared, t_ran, t_prep_res, t_outcome,
                 apiFrame>>

NextApi ==
  \/ \E u \in RequestUrls, l \in Languages : generate_tutorial(u, l)
  \/ \E v \in {"false", "raises"} : validate_repo_fails(v)
  \/ validate_repo_ok
  \/ \E u \in RequestUrls, l \in Languages : generate_direct(u, l)
  \/ tg_run
  \/ tg_exec
  \/ answer

SpecApi == InitDefault /\ [][NextApi]_vars

\* Flow.run over steps whose prep may write into the context
NextPrep ==
  \/ \E s \in Steps, t \in Steps :
       Assembling /\ edges_registered < MaxEdges /\ rshift(s, t)
  \/ run(NoParams)
  \/ visit \/ finish
  \/ \E w \in Effects : flow_prep(w)
  \/ \E w \in Effects : node_prep(w)
  \/ for_next \/ exec_returns \/ exec_raises \/ except_last \/ exec_fallback
  \/ post(EmptyDict, "r1")
  \/ select

SpecPrep == InitDefault /\ [][NextPrep]_vars

\* Flow.run over nodes built with max_retries of -1, 0 or 1
NextZero ==
  \/ \E s \in Steps, t \in Steps :
       Assembling /\ edges_registered < MaxEdges /\ rshift(s, t)
  \/ run(NoParams)
  \/ visit \/ finish \/ flow_prep(EmptyDict) \/ node_prep(EmptyDict)
  \/ for_next \/ for_exhausted \/ exec_returns \/ exec_raises \/ except_last
  \/ exec_fallback \/ exec_fallback_override
  \/ \E r \in PostResults : post(EmptyDict, r)
  \/ select

InitZero == InitNodes(-1..1, {0, 1}, BOOLEAN) /\ InitFlow /\ InitRest /\ InitExt

SpecZero == InitZero /\ [][NextZero]_vars

\* the steps of a run in progress, with phases that return
RunStep ==
  \/ visit \/ finish \/ flow_prep(EmptyDict) \/ node_prep(EmptyDict)
  \/ for_next \/ exec_returns
  \/ post(EmptyDict, "r1")
  \/ select

\* pipelines with label keys only; a run that has started keeps taking its steps
NextPath ==
  \/ \E s \in Steps, t \in Steps :
       Len(history) = 0 /\ edges_registered < MaxEdges /\ rshift(s, t)
  \/ \E s \in Steps : Len(history) = 0 /\ sub(s, "x")
  \/ \E t \in Steps : Len(history) = 0 /\ edges_registered < MaxEdges /\ ct_rshift(t)
  \/ run(NoParams)
  \/ RunStep

SpecPath == InitDefault /\ [][NextPath]_vars /\ WF_vars(RunStep)

\* ------------------------------------------------ evaluating a >> b >> c
\* what the evaluation of a chain leaves alone besides successors, warned and
\* edges_registered
chainFrame == <<max_retries, wait, cur_retry, overrides_fallback, flowVars, ctlVars,
                outcome, sel, trace, exec_call, visited, hist0, written, after_reset,
                cleared, wireVars, callVars, paramVars, llmVars, fetchVars, apiVars>>

\* the leftmost operand of a chain expression is evaluated
chain_start(a) ==
  /\ pc = "idle"
  /\ chain_ops' = <<a>> /\ chain_val' = a
  /\ chain_fresh' = (\A s \in Steps : successors[s] = <<>>)
  /\ UNCHANGED <<successors, warned, edges_registered, chainFrame>>

\* nodes.py 18-22 and 46-47: value >> other, where value is what the chain to the
\* left evaluated to; the result is what next returns
chain_rshift(other) ==
  /\ pc = "idle" /\ chain_val # None
  /\ warned' = HasKey(successors[chain_val], "default")
  /\ successors' = [successors EXCEPT ![chain_val] = SetItem(@, "default", other)]
  /\ edges_registered' = edges_registered + 1
  /\ chain_ops' = Append(chain_ops, other)
  /\ chain_val' = RshiftReturn(chain_val, other)
  /\ UNCHANGED <<chain_fresh, chainFrame>>

NextChain ==
  \/ \E a \in Steps : chain_start(a)
  \/ \E other \in Steps :
       Len(chain_ops) < MaxChain /\ edges_registered < 2 * MaxEdges /\ chain_rshift(other)

SpecChain == InitDefault /\ [][NextChain]_vars

\* runs of a Flow and direct calls of run on its steps, one after the other
NextDirect ==
  \/ \E s \in Steps, t \in Steps :
       Assembling /\ edges_registered < MaxEdges /\ rshift(s, t)
  \/ run([k1 |-> 1])
  \/ visit \/ finish \/ flow_prep(EmptyDict) \/ select
  \/ \E s \in Steps, m \in {EmptyDict, [k2 |-> 2]} : node_run(s, m)
  \/ node_return
  \/ \E w \in {EmptyDict, [k2 |-> 1]} : node_prep(w)
  \/ for_next \/ exec_returns \/ exec_raises \/ except_last \/ exec_fallback
  \/ \E r \in PostResults : post(EmptyDict, r)

SpecDirect == InitDefault /\ [][NextDirect]_vars

\* the table of one step is filled, keys being registered again, and the Flow run
NextOrder ==
  \/ \E t \in Steps : Len(history) = 0 /\ edges_registered <= MaxEdges /\ rshift("A", t)
  \/ Len(history) = 0 /\ sub("A", "x")
  \/ \E t \in Steps : Len(history) = 0 /\ edges_registered <= MaxEdges /\ ct_rshift(t)
  \/ run(NoParams)
  \/ RunStep

SpecOrder == InitDefault /\ [][NextOrder]_vars

\* -------------------------------------- the collaborators and the engine
\* nothing has been called yet on the engine, the LLMService, the GitHubService
EngineIdle == pc = "idle" /\ outcome.kind = "none" /\ Len(history) = 0
LLMIdle    == g_pc = "idle"
FetchIdle  == f_pc = "idle"

\* one of the three operations is exercised: a run of a one-step pipeline with any
\* retry policy, generate calls, or a fetch_repository call
NextFailures ==
  \/ /\ LLMIdle /\ FetchIdle
     /\ \/ run(NoParams)
        \/ visit \/ finish \/ flow_prep(EmptyDict) \/ flow_prep_raises
        \/ node_prep(EmptyDict) \/ node_prep_raises
        \/ RetrySteps
        \/ post(EmptyDict, "r1")
        \/ post_raises
        \/ select
  \/ /\ EngineIdle /\ FetchIdle
     /\ NextLLM
  \/ /\ EngineIdle /\ LLMIdle
     /\ NextFetch

InitFailures ==
  InitNodes(0..MaxRetries, {0, 1}, BOOLEAN) /\ InitFlow /\ InitRest /\ InitCalls /\ InitParams
  /\ InitSvc({AbsentStore, CorruptStore})

SpecFailures == InitFailures /\ [][NextFailures]_vars

\* a pipeline assembled with >> and - only, run over steps that return any result
NextLabels ==
  \/ \E s \in Steps, t \in Steps :
       Len(history) = 0 /\ edges_registered < MaxEdges /\ rshift(s, t)
  \/ \E s \in Steps, a \in Labels \cup Preds : Len(history) = 0 /\ sub(s, a)
  \/ \E s \in Steps, a \in Labels \cup Preds : Len(history) = 0 /\ sub_raises(s, a)
  \/ \E t \in Steps : Len(history) = 0 /\ edges_registered < MaxEdges /\ ct_rshift(t)
  \/ run(NoParams)
  \/ visit \/ finish \/ flow_prep(EmptyDict) \/ node_prep(EmptyDict)
  \/ for_next \/ exec_returns
  \/ \E r \in PostResults : post(EmptyDict, r)
  \/ select

SpecLabels == InitDefault /\ [][NextLabels]_vars

\* two callers run _exec on one shared Node, their steps interleaved
NextCalls ==
  \E t \in Callers :
    \/ call_start(t) \/ call_for_next(t) \/ call_for_exhausted(t)
    \/ call_exec_returns(t) \/ call_exec_raises(t)
    \/ call_except_last(t) \/ call_except_retry(t)

\* the shared node keeps Node.exec_fallback and has max_retries >= 1
InitShared == InitNodes(1..MaxRetries, {0, 1}, {FALSE}) /\ InitFlow /\ InitRest /\ InitExt

SpecCalls == InitShared /\ [][NextCalls]_vars

\* ------------------------------------------------------------- properties
\* positions in trace of the calls of the given kinds
Idx(evs)  == {i \in 1..Len(trace) : trace[i].ev \in evs}
Preps     == Idx({"prep"})
Attempts  == Idx({"exec", "exec_raise"})
Successes == Idx({"exec"})
Failures  == Idx({"exec_raise"})
Sleeps    == Idx({"sleep"})
Fallbacks == Idx({"fallback"})
Posts     == Idx({"post"})
IsPrefix(s, t) == Len(s) <= Len(t) /\ SubSeq(t, 1, Len(s)) = s

\* a call of _exec was made in the visit and has returned or raised
ExecFinished == exec_call.status \in {"returned", "raised"}

\* C1: for a Node with max_retries = N >= 1, exec_fallback is only ever invoked after
\* exactly N exec attempts that all raised, it receives the exception of the N-th
\* attempt, it is invoked at most once and no exec attempt follows it; and a call of
\* _exec in which every exec attempt raised ends only after N attempts and one
\* exec_fallback call.
C1_FallbackAfterNFailures ==
  (exec_call.status # "none" /\ max_retries[exec_call.node] >= 1) =>
    LET N == max_retries[exec_call.node] IN
    /\ \A j \in Fallbacks :
         /\ Cardinality({i \in Attempts : i < j}) = N
         /\ {i \in Attempts : i < j} \subseteq Failures
         /\ \A i \in Failures :
              Cardinality({k \in Attempts : k <= i}) = N => trace[j].b = trace[i].r
         /\ ~\E i \in Attempts : i > j
    /\ Cardinality(Fallbacks) <= 1
    /\ (ExecFinished /\ Attempts \subseteq Failures) =>
         (Cardinality(Attempts) = N /\ Cardinality(Fallbacks) = 1)

C1_Witness ==
  /\ exec_call.status # "none" /\ ExecFinished
  /\ max_retries[exec_call.node] >= 2
  /\ Cardinality(Failures) = max_retries[exec_call.node]
  /\ Fallbacks # {}

\* C2: for a Node with max_retries = N >= 1, when exec succeeds on attempt k, every
\* earlier attempt raised, k <= N, no further exec attempt, no sleep and no
\* exec_fallback call follows, and _exec returns the value of that k-th attempt.
C2_StopsAtFirstSuccess ==
  (exec_call.status # "none" /\ max_retries[exec_call.node] >= 1) =>
    \A j \in Successes :
      LET k == Cardinality({i \in Attempts : i <= j}) IN
      /\ k <= max_retries[exec_call.node]
      /\ {i \in Attempts : i < j} \subseteq Failures
      /\ Cardinality(Attempts) = k
      /\ Fallbacks = {}
      /\ ~\E i \in Sleeps : i > j
      /\ exec_call.status = "returned" /\ exec_call.ret = trace[j].r
      /\ (pc = "post" => exec_res = trace[j].r)
      /\ \A q \in Posts : trace[q].b = trace[j].r

C2_Witness ==
  /\ pc = "post"
  /\ Cardinality(Failures) = 1 /\ Cardinality(Successes) = 1
  /\ Sleeps # {}
  /\ exec_res = ExecValue(2)

\* the pipeline A >> B >> C and nothing else
Linear ==
  /\ successors["A"] = <<[action |-> "default", node |-> "B"]>>
  /\ successors["B"] = <<[action |-> "default", node |-> "C"]>>
  /\ successors["C"] = <<>>

\* C3: on the pipeline A >> B >> C, the first run of a new Flow(start = A) visits a
\* prefix of A, B, C at every moment, and when it returns it has visited exactly
\* A, B, C, history is [A, B, C] and the value returned is the one C's post returned.
C3_LinearPipeline ==
  (Linear /\ hist0 = <<>> /\ (pc # "idle" \/ outcome.kind = "returned")) =>
    /\ history = visited
    /\ IsPrefix(visited, <<"A", "B", "C">>)
    /\ (pc = "idle" =>
          /\ history = <<"A", "B", "C">>
          /\ trace[1].a = "C"
          /\ \E j \in Posts : outcome.val = trace[j].r)

C3_Witness ==
  /\ Linear /\ hist0 = <<>> /\ pc = "idle"
  /\ outcome = [kind |-> "returned", val |-> "r2"]
  /\ history = <<"A", "B", "C">>

\* the reference rule: the entries that would be taken if the scan reached them
RefTaken(table, r) ==
  {i \in 1..Len(table) : ~callable(table[i].action) \/ PredHolds(table[i].action, r)}
RefSuccessor(table, r) ==
  IF RefTaken(table, r) = {} THEN None
  ELSE table[CHOOSE i \in RefTaken(table, r) : \A k \in RefTaken(table, r) : i <= k].node

\* C4: after every selection, the step Flow.run moves to is the target of the first
\* entry of the step's table, in registration order, that is a plain label or a
\* predicate true of the post result, and none when there is no such entry.
C4_SelectionMatchesReference ==
  (pc = "loop" /\ sel.step # None) =>
    current = RefSuccessor(successors[sel.step], sel.arg)

C4_Witness ==
  /\ pc = "loop" /\ sel.step # None
  /\ Len(successors[sel.step]) = 2
  /\ callable(successors[sel.step][1].action)
  /\ ~PredHolds(successors[sel.step][1].action, sel.arg)
  /\ current = successors[sel.step][2].node
  /\ successors[sel.step][1].node # successors[sel.step][2].node

\* C5: when a step's table has a plain label at entry i and a predicate at a later
\* entry j, the selection takes an entry no later than i, never entry j, and never
\* calls the predicate of entry j; when no predicate precedes the label, the first
\* entry (a plain label) is taken and no predicate is called at all.
C5_LabelShadowsLaterPredicate ==
  (pc = "loop" /\ sel.step # None) =>
    LET t == successors[sel.step] IN
    \A i \in 1..Len(t), j \in 1..Len(t) :
      (i < j /\ ~callable(t[i].action) /\ callable(t[j].action)) =>
        /\ sel.edge >= 1 /\ sel.edge <= i
        /\ \A n \in 1..Len(sel.evals) : sel.evals[n] # t[j].action
        /\ (t[j].node # t[sel.edge].node => current # t[j].node)
        /\ (\A k \in 1..i : ~callable(t[k].action)) =>
             (sel.edge = 1 /\ sel.evals = <<>> /\ current = t[1].node)

C5_Witness ==
  /\ pc = "loop" /\ sel.step # None
  /\ Len(successors[sel.step]) = 2
  /\ ~callable(successors[sel.step][1].action)
  /\ callable(successors[sel.step][2].action)
  /\ PredHolds(successors[sel.step][2].action, sel.arg)
  /\ successors[sel.step][1].node # successors[sel.step][2].node
  /\ current = successors[sel.step][1].node

\* C6: right after reset() shared_data is empty, current_node is start and history
\* is empty; during and after the run({}) or run() that follows a reset, every key
\* of shared_data was written by a phase of that run.
C6_ResetClears ==
  /\ after_reset = "reset" =>
       (shared_data = EmptyDict /\ current_node = start /\ history = <<>>)
  /\ after_reset = "run" => DOMAIN shared_data \subseteq written

C6_Witness ==
  /\ after_reset = "run" /\ cleared = SharedKeys
  /\ pc = "select"
  /\ DOMAIN shared_data = {"k1"}

\* C7 as stated: after a run that returns normally history holds exactly the steps
\* that run visited.
C7_RunClearsHistory ==
  (pc = "idle" /\ outcome.kind = "returned" /\ after_reset # "reset") =>
    history = visited

\* C7 as amended: run does not clear history; after a run that returns normally
\* history is what it was when run was called followed by the steps that run
\* visited, which is exactly the visited steps only when history was empty before.
C7_RunAppendsToHistory ==
  (pc = "idle" /\ outcome.kind = "returned" /\ after_reset # "reset") =>
    /\ history = hist0 \o visited
    /\ (hist0 = <<>> => history = visited)

C7_Witness ==
  /\ pc = "idle" /\ outcome.kind = "returned" /\ after_reset = "no"
  /\ hist0 # <<>> /\ visited # <<>>
  /\ history = hist0 \o visited

\* k is a key of the params given to the run that is starting
InParams(p, k) == truthy(p) /\ k \in DOMAIN p

\* C8: the step run(params) takes before the first visit leaves, for every key, the
\* params value if params has the key, the previous value if only shared_data had
\* it, and no entry otherwise; run(None) and run({}) leave shared_data as it was.
C8_RunMergesParams ==
  [][(pc = "idle" /\ pc' = "loop") =>
       /\ \A k \in SharedKeys :
            /\ InParams(run_params', k) =>
                 (k \in DOMAIN shared_data' /\ shared_data'[k] = run_params'[k])
            /\ (~InParams(run_params', k) /\ k \in DOMAIN shared_data) =>
                 (k \in DOMAIN shared_data' /\ shared_data'[k] = shared_data[k])
            /\ (~InParams(run_params', k) /\ k \notin DOMAIN shared_data) =>
                 k \notin DOMAIN shared_data'
       /\ (~truthy(run_params') => shared_data' = shared_data)]_vars

C8_Witness ==
  /\ pc = "loop" /\ visited = <<>> /\ hist0 # <<>> /\ after_reset = "no"
  /\ truthy(run_params)
  /\ DOMAIN run_params = {"k1"}
  /\ DOMAIN shared_data = {"k1", "k2"}
  /\ shared_data["k1"] = run_params["k1"]

\* a step is being visited by Flow.run
InVisit ==
  caller = "flow" /\ pc \in {"prep1", "prep2", "for", "exec", "except", "fallback", "post", "select"}

\* C9: while a step is visited it is the last entry of history; every exec attempt
\* comes after every prep call and before post; post gets the shared context, the
\* prep result exec was given and what _exec returned; the value post returns is
\* the one selection is applied to, becomes result, and is what run returns when
\* the step is the last.
C9_VisitOrder ==
  /\ InVisit =>
       /\ history # <<>> /\ history[Len(history)] = current
       /\ trace # <<>> /\ trace[1].ev = "append" /\ trace[1].a = current
  /\ \A i \in Attempts :
       /\ \E p \in Preps : p < i
       /\ \A p \in Preps : p < i /\ (\A q \in Preps : q <= p) => trace[i].a = trace[p].r
       /\ \A q \in Posts : i < q
  /\ \A j \in Posts :
       /\ trace[j].ctx = "shared_data"
       /\ \A i \in Attempts : trace[i].a = trace[j].a
       /\ \A p \in Preps : (\A q \in Preps : q <= p) => trace[j].a = trace[p].r
       /\ exec_call.status = "returned" /\ trace[j].b = exec_call.ret
       /\ (pc = "select" => prep_result = trace[j].r)
       /\ (pc = "loop" => (sel.arg = trace[j].r /\ result = trace[j].r))
       /\ ((pc = "idle" /\ outcome.kind = "returned") => outcome.val = trace[j].r)

C9_Witness ==
  /\ pc = "idle" /\ outcome = [kind |-> "returned", val |-> "r2"]
  /\ Failures # {} /\ Successes # {} /\ Posts # {}
  /\ Len(visited) = 2

\* C10: in Flow.run, once exec has raised on all N >= 1 attempts of a Node that keeps
\* Node.exec_fallback, the run has ended by raising exactly the exception of the
\* N-th attempt: no result is returned, post of the step was not called, no
\* selection was made and the failing step is the last one visited.
C10_ExhaustedRetriesAbortRun ==
  (/\ exec_call.status # "none"
   /\ max_retries[exec_call.node] >= 1
   /\ ~overrides_fallback[exec_call.node]
   /\ Cardinality(Failures) = max_retries[exec_call.node]
   /\ pc \notin {"except", "fallback"}) =>
    /\ pc = "idle" /\ outcome.kind = "raised"
    /\ \E i \in Failures : (\A k \in Failures : k <= i) /\ outcome.val = trace[i].r
    /\ Posts = {} /\ Idx({"post_raise"}) = {}
    /\ sel = NoSel
    /\ visited # <<>> /\ visited[Len(visited)] = exec_call.node
    /\ history = hist0 \o visited

C10_Witness ==
  /\ pc = "idle" /\ outcome = [kind |-> "raised", val |-> ExcValue(2)]
  /\ exec_call.status = "raised"
  /\ max_retries[exec_call.node] = 2
  /\ successors[exec_call.node] # <<>>
  /\ Len(visited) = 2

\* the entries of a table under key a, and the successor the table gives for a
Entries(table, a) == {i \in 1..Len(table) : table[i].action = a}
Lookup(table, a) ==
  IF Entries(table, a) = {} THEN None ELSE table[CHOOSE i \in Entries(table, a) : TRUE].node

\* after the step, step s has exactly one entry for key a, its target is t, every
\* other key of s and every other step's table is as before
Installed(s, a, t) ==
  /\ Cardinality(Entries(successors'[s], a)) = 1
  /\ Lookup(successors'[s], a) = t
  /\ \A b \in (Labels \cup Preds) \ {a} :
       /\ Lookup(successors'[s], b) = Lookup(successors[s], b)
       /\ Cardinality(Entries(successors'[s], b)) = Cardinality(Entries(successors[s], b))
  /\ \A s2 \in Steps \ {s} : successors'[s2] = successors[s2]

\* C13: every call next(node, action) leaves the step with exactly one entry for the
\* key, pointing at the new target, changes no other key and no other step, raises
\* nothing, and warns exactly when the step already had the key; a replaced key
\* keeps the table's length, a new key adds one entry.
C13_ReRegisterReplacesAndWarns ==
  [][\A s \in Steps, t \in Steps, a \in Labels \cup Preds :
       next(s, t, a) =>
         /\ Installed(s, a, t)
         /\ warned' = (Entries(successors[s], a) # {})
         /\ Len(successors'[s]) =
              Len(successors[s]) + (IF Entries(successors[s], a) # {} THEN 0 ELSE 1)
         /\ pc' = "idle" /\ outcome' = outcome]_vars

C13_Witness ==
  /\ warned /\ edges_registered = 2
  /\ \E s \in Steps :
       /\ Len(successors[s]) = 1
       /\ \A s2 \in Steps \ {s} : successors[s2] = <<>>

\* C14: A >> B installs B under "default" in A's table; A - label for a string label
\* changes no table and (A - label) >> B installs B under that label in A's table;
\* each leaves every other key of A and every other step's table as it was; A - x
\* for an x that is not a string raises TypeError and changes no table.
C14_EdgeOperators ==
  [][/\ \A s \in Steps, t \in Steps : rshift(s, t) => Installed(s, "default", t)
     /\ \A s \in Steps, a \in Labels :
          sub(s, a) => (successors' = successors /\ cond' = [src |-> s, action |-> a])
     /\ \A t \in Steps : ct_rshift(t) => Installed(cond.src, cond.action, t)
     /\ \A s \in Steps, x \in Preds :
          sub_raises(s, x) =>
            /\ successors' = successors /\ cond' = cond
            /\ outcome' = [kind |-> "raised", val |-> "TypeError"]]_vars

C14_Witness ==
  /\ successors["A"] = <<[action |-> "default", node |-> "B"], [action |-> "x", node |-> "C"]>>
  /\ successors["B"] = <<>> /\ successors["C"] = <<>>
  /\ cond = [src |-> "A", action |-> "x"]
  /\ outcome = [kind |-> "raised", val |-> "TypeError"]

\* C11: during a run of the Flow no step removes a key from shared_data; a value
\* changes only in a phase call that returns, which leaves the value it wrote under
\* the key it wrote and every other key as it was; every key written by params or
\* by a phase of the run is present; and the step in which a phase raises leaves
\* shared_data and history as they were, history ending with the step that raised.
C11_NoRollback ==
  [][(caller = "flow") =>
       /\ \A k \in DOMAIN shared_data :
            /\ k \in DOMAIN shared_data'
            /\ shared_data'[k] # shared_data[k] =>
                 (pc \in {"prep1", "prep2", "post"} /\ outcome'.kind # "raised")
       /\ \A w \in Effects :
            (flow_prep(w) \/ node_prep(w) \/ \E r \in PostResults : post(w, r)) =>
              \A k \in SharedKeys :
                /\ k \in DOMAIN w => (k \in DOMAIN shared_data' /\ shared_data'[k] = w[k])
                /\ (k \notin DOMAIN w /\ k \in DOMAIN shared_data) =>
                     shared_data'[k] = shared_data[k]
       /\ written \subseteq DOMAIN shared_data
       /\ written' \subseteq DOMAIN shared_data'
       /\ outcome'.kind = "raised" =>
            /\ shared_data' = shared_data /\ history' = history
            /\ history # <<>> /\ history[Len(history)] = current]_vars

C11_Witness ==
  /\ pc = "idle" /\ outcome.kind = "raised"
  /\ hist0 = <<>> /\ after_reset = "no"
  /\ Len(visited) = 2 /\ history = visited
  /\ written = SharedKeys /\ DOMAIN shared_data = SharedKeys

\* C12: when no phase raises, a run of the Flow ends only by returning, and only in
\* the step right after a selection that yielded no successor for the step just
\* executed; after a selection that yielded a successor the next step of the run is
\* the visit of that successor; after one that yielded none it is the return, with
\* no further visit.
C12_ReturnsIffNoSuccessor ==
  [][/\ (caller = "flow" /\ pc' = "idle") =>
          /\ pc = "loop" /\ sel.step # None /\ sel.node = None
          /\ sel.step = visited[Len(visited)]
          /\ RefSuccessor(successors[sel.step], sel.arg) = None
          /\ outcome'.kind = "returned"
          /\ visited' = visited /\ history' = history
     /\ (pc = "loop" /\ sel.step # None /\ sel.node # None) =>
          (pc' = "prep1" /\ visited' = Append(visited, sel.node))
     /\ (pc = "loop" /\ sel.step # None /\ sel.node = None) =>
          (pc' = "idle" /\ outcome'.kind = "returned" /\ visited' = visited)]_vars

C12_Witness ==
  /\ pc = "idle" /\ outcome.kind = "returned"
  /\ Len(visited) = 2
  /\ sel.step = visited[2] /\ sel.node = None
  /\ successors[sel.step] # <<>>

\* C15: for nodes with max_retries = N >= 1, 0 <= cur_retry <= N - 1 in every state;
\* while attempt i of exec is in progress or its exception is being handled
\* cur_retry = i - 1; when exec_fallback is invoked cur_retry = N - 1; after exec has
\* succeeded on attempt k cur_retry stays k - 1; and the step that starts the first
\* attempt of a call of _exec sets cur_retry to 0 whatever it was before.
C15_RetryCounter ==
  [][LET Counter ==
           /\ \A n \in Steps :
                max_retries[n] >= 1 => (0 <= cur_retry[n] /\ cur_retry[n] <= max_retries[n] - 1)
           /\ pc = "exec" => cur_retry[current] = Cardinality(Attempts)
           /\ pc = "except" => cur_retry[current] = Cardinality(Attempts) - 1
           /\ pc = "fallback" => cur_retry[current] = max_retries[current] - 1
           /\ Successes # {} => cur_retry[exec_call.node] = Cardinality(Attempts) - 1
     IN /\ Counter /\ Counter'
        /\ (pc = "for" /\ Attempts = {} /\ pc' = "exec") => cur_retry'[current] = 0]_vars

C15_Witness ==
  /\ pc = "fallback" /\ max_retries[current] = 2
  /\ Cardinality(Failures) = 2 /\ cur_retry[current] = 1
  /\ \E n \in Steps \ {current} : cur_retry[n] = 1

\* C16: in a call of _exec of a Node with max_retries = N >= 1, every sleep comes right
\* after a failed attempt that is not the N-th and only when wait > 0; every failed
\* attempt before the N-th is followed at once by a sleep when wait > 0; exec_fallback
\* comes right after the N-th failed attempt with no sleep between; with wait = 0 or
\* N = 1 there is no sleep at all; a call whose attempts all failed made N attempts
\* and, when wait > 0, exactly N - 1 sleeps.
C16_WaitOnlyBetweenAttempts ==
  (exec_call.status # "none" /\ max_retries[exec_call.node] >= 1) =>
    LET N == max_retries[exec_call.node]
        W == wait[exec_call.node]
        No(i) == Cardinality({k \in Attempts : k <= i})
    IN /\ \A s \in Sleeps : W > 0 /\ (s - 1) \in Failures /\ No(s - 1) < N
       /\ \A i \in Failures :
            (No(i) < N /\ W > 0) =>
              IF i = Len(trace) THEN pc = "except" ELSE (i + 1) \in Sleeps
       /\ \A j \in Fallbacks : (j - 1) \in Failures /\ No(j - 1) = N
       /\ W <= 0 => Sleeps = {}
       /\ N = 1 => (Sleeps = {} /\ Cardinality(Attempts) <= 1)
       /\ (ExecFinished /\ Attempts \subseteq Failures) =>
            /\ Cardinality(Attempts) = N
            /\ W > 0 => Cardinality(Sleeps) = N - 1

C16_Witness ==
  /\ ExecFinished /\ Fallbacks # {}
  /\ max_retries[exec_call.node] = 2 /\ wait[exec_call.node] > 0
  /\ Cardinality(Failures) = 2 /\ Cardinality(Sleeps) = 1

\* C17: in a run of the Flow, once the exec_fallback of a subclass has been invoked
\* for a Node with max_retries = N >= 1 (all N attempts raised) and has returned v,
\* _exec has returned v, post is called with v as the exec result, the run is not
\* aborted by the exec failures (only post itself can still raise), and selection is
\* made on post's result by the same rule as after a successful exec.
C17_OverriddenFallbackContinues ==
  (/\ caller \in {"flow", None} /\ exec_call.status # "none"
   /\ max_retries[exec_call.node] >= 1
   /\ overrides_fallback[exec_call.node]
   /\ Fallbacks # {}) =>
    /\ Cardinality(Failures) = max_retries[exec_call.node] /\ Successes = {}
    /\ \A j \in Fallbacks : trace[j].r = FallbackValue
    /\ exec_call.status = "returned" /\ exec_call.ret = FallbackValue
    /\ pc \in {"post", "select", "loop", "idle"}
    /\ pc = "post" => exec_res = FallbackValue
    /\ \A q \in Idx({"post", "post_raise"}) : trace[q].b = FallbackValue
    /\ (pc = "idle" /\ outcome.kind = "raised") =>
         (outcome.val = "xpost" /\ Idx({"post_raise"}) # {})
    /\ pc \in {"select", "loop"} => Posts # {}
    /\ pc = "loop" =>
         /\ sel.step = exec_call.node
         /\ \E q \in Posts : sel.arg = trace[q].r
         /\ current = RefSuccessor(successors[sel.step], sel.arg)
    /\ (pc = "idle" /\ outcome.kind = "returned") =>
         (sel.step = exec_call.node /\ sel.node = None)

C17_Witness ==
  /\ pc = "loop" /\ Fallbacks # {}
  /\ overrides_fallback[exec_call.node] /\ max_retries[exec_call.node] = 2
  /\ exec_call.ret = FallbackValue
  /\ sel.node # None /\ current = sel.node

\* C18: an exception raised by prep or by post is the last thing that happens in the
\* run: the run has ended raising exactly that exception, no call of any phase, no
\* sleep and no exec_fallback follows it, and no selection is made; a raising prep
\* is followed by no exec attempt and no post, and post is not called a second time,
\* whatever the step's max_retries.
C18_PrepAndPostNotRetried ==
  \A i \in Idx({"prep_raise", "post_raise"}) :
    /\ i = Len(trace)
    /\ pc = "idle" /\ outcome = [kind |-> "raised", val |-> trace[i].r]
    /\ sel = NoSel
    /\ visited # <<>> /\ visited[Len(visited)] = trace[1].a
    /\ trace[i].ev = "prep_raise" =>
         (Attempts = {} /\ Sleeps = {} /\ Fallbacks = {} /\ Posts = {})
    /\ trace[i].ev = "post_raise" =>
         (Posts = {} /\ \A j \in Sleeps \cup Fallbacks \cup Attempts : j < i)

C18_Witness ==
  /\ pc = "idle" /\ outcome = [kind |-> "raised", val |-> "xpost"]
  /\ Idx({"post_raise"}) # {}
  /\ max_retries[exec_call.node] = 2
  /\ Failures # {} /\ Sleeps # {} /\ Successes # {}

\* C19 as stated: current_node is the cursor of the run: it is the step being
\* executed while a step is visited, none after a run that returned normally, and
\* the failing step after a run aborted by an exception.
C19_CursorFollowsRun ==
  /\ InVisit => current_node = current
  /\ (pc = "idle" /\ outcome.kind = "returned") => current_node = None
  /\ (pc = "idle" /\ outcome.kind = "raised" /\ visited # <<>>) =>
       current_node = visited[Len(visited)]

\* C20: no step of run and no reset changes start, any step's successors table,
\* max_retries or wait (only the wiring calls change a table); reset also leaves
\* every step's cur_retry as it was.
C20_TopologyImmutable ==
  [][/\ edges_registered' = edges_registered =>
          /\ start' = start /\ successors' = successors
          /\ max_retries' = max_retries /\ wait' = wait
     /\ reset =>
          /\ start' = start /\ successors' = successors
          /\ max_retries' = max_retries /\ wait' = wait
          /\ cur_retry' = cur_retry]_vars

C20_Witness ==
  /\ after_reset = "reset" /\ history = <<>>
  /\ successors["A"] = <<[action |-> "default", node |-> "B"]>>
  /\ cur_retry["B"] = 1
  /\ visited = <<"A", "B">>

\* C21: with two callers in _exec on one Node (max_retries = N >= 1), a caller never
\* makes more than N attempts of its own, and its call breaks the retry contract
\* (exec_fallback after fewer than N own failed attempts, or None returned after
\* failed attempts with no exec_fallback) only when the other caller assigned
\* cur_retry between its own assignment and its own test; a caller that was not
\* raced reads its own attempt index.  Both breaches are reachable (the witness).
C21_SharedCounterRace ==
  \A t \in Callers :
    /\ c_failed[t] <= max_retries[Shared]
    /\ (c_end[t] = "fallback" /\ c_failed[t] < max_retries[Shared]) => c_raced[t]
    /\ c_end[t] = "lost" => c_raced[t]
    /\ (c_pc[t] = "except" /\ ~c_raced[t]) => cur_retry[Shared] = c_failed[t] - 1
    /\ (c_end[t] \in {"fallback", "lost"} /\ c_failed[t] = 0) => FALSE

C21_Witness ==
  /\ max_retries[Shared] >= 2
  /\ c_breaches = {"early_fallback", "lost_failure"}
  /\ \E t \in Callers : c_end[t] = "lost" /\ c_failed[t] = max_retries[Shared]

\* C22: a step's params mapping changes only in a call of set_params on that step;
\* run(params), whatever params it is given, and reset leave every step's params
\* as they were, so a step never given params still has the empty mapping while
\* its exec runs in a run started with non-empty params (the witness).
C22_ParamsReadOnly ==
  [][/\ \A n \in Steps :
          node_params'[n] # node_params[n] => set_params(n, node_params'[n])
     /\ \A p \in Dicts \cup {NoParams} : run(p) => node_params' = node_params
     /\ reset => node_params' = node_params
     /\ pc # "idle" => node_params' = node_params]_vars

C22_Witness ==
  /\ caller = "flow" /\ pc = "exec" /\ current = "A"
  /\ "k1" \in DOMAIN shared_data /\ hist0 = <<>> /\ after_reset = "no"
  /\ node_params["A"] = EmptyDict
  /\ node_params["B"] = [k1 |-> 2]

\* the steps reached from n by following, k times at most, the first-registered
\* edge of each step
RECURSIVE FirstEdgePath(_, _)
FirstEdgePath(n, k) ==
  IF n = None \/ k = 0 THEN <<>>
  ELSE <<n>> \o FirstEdgePath(IF successors[n] = <<>> THEN None ELSE successors[n][1].node,
                              k - 1)

\* C23: in a pipeline wired with >> and - label >> only, every key of every table is
\* a plain string, selection never calls a predicate and always takes the first
\* entry of the step's table (none when the table is empty); so the steps a run
\* visits are the first-edge path from start whatever the steps return, a run that
\* returns has visited that whole path, and the target of a later entry is entered
\* from the step only if it is also the first entry's target.
C23_FirstEdgeOnly ==
  /\ \A s \in Steps : \A i \in 1..Len(successors[s]) : ~callable(successors[s][i].action)
  /\ sel.evals = <<>>
  /\ sel.step # None =>
       /\ sel.edge = (IF successors[sel.step] = <<>> THEN 0 ELSE 1)
       /\ sel.node = (IF successors[sel.step] = <<>> THEN None
                      ELSE successors[sel.step][1].node)
  /\ caller = "flow" => visited = FirstEdgePath(start, Len(visited))
  /\ (pc = "idle" /\ outcome.kind = "returned") =>
       /\ visited = FirstEdgePath(start, Len(visited))
       /\ FirstEdgePath(start, Len(visited) + 1) = visited

C23_Witness ==
  /\ pc = "idle" /\ outcome = [kind |-> "returned", val |-> "r2"]
  /\ successors["A"] = <<[action |-> "default", node |-> "B"], [action |-> "x", node |-> "C"]>>
  /\ visited = <<"A", "B">>

\* the generate call in progress has ended
Generated == g_pc = "done"

\* C24: a generate call with use_cache on a loadable store that maps the prompt
\* returns the stored entry, calls no provider and does not write the store,
\* whatever else the store holds.
C24_CacheHit ==
  (Generated /\ g_use_cache /\ g_store0.kind = "ok" /\ g_prompt \in DOMAIN g_store0.map) =>
    /\ g_outcome = [kind |-> "returned", val |-> g_store0.map[g_prompt]]
    /\ provider_calls = 0
    /\ store_writes = 0
    /\ cache_store = g_store0

C24_Witness ==
  /\ Generated /\ g_use_cache /\ g_prompt = "p"
  /\ g_store0 = OkStore([x \in {"p", "q"} |-> IF x = "p" THEN "r" ELSE "s"])
  /\ g_outcome = [kind |-> "returned", val |-> "r"]

\* C25: when the load of the store fails, the generate call goes on as with an
\* empty cache: it calls the provider exactly once, raises only if the provider
\* raised, and returns the response the provider gave.
C25_CorruptStoreIsEmpty ==
  (Generated /\ g_use_cache /\ g_read_failed) =>
    /\ provider_calls = 1
    /\ "load_warning" \in g_log
    /\ g_outcome.kind = "raised" => g_response = None
    /\ g_response # None => g_outcome = [kind |-> "returned", val |-> g_response]

C25_Witness ==
  /\ Generated /\ g_use_cache /\ g_read_failed /\ g_store0 = CorruptStore
  /\ g_prompt = "p" /\ g_outcome = [kind |-> "returned", val |-> "s"]
  /\ cache_store = OkStore([x \in {"p"} |-> "s"])

\* the last save of the generate call failed
SaveFailed == Generated /\ g_use_cache /\ g_write_failed # "no"

\* C26 as stated: after a failed write the stored content is what it was before
\* the call.
C26_StoreUnchangedOnWriteFailure ==
  SaveFailed => cache_store = g_store0

\* C26: a failed write after a miss does not fail the call: the provider's response
\* is returned and the failure is logged.  The store is what it was only when it
\* could not be opened for writing; otherwise it holds the part of the new content
\* that went out before the failure.  Unless all of it went out, the store does not
\* map the prompt, and the next generate call for the prompt with use_cache calls
\* the provider again.
C26_WriteFailureIsLogged ==
  /\ SaveFailed =>
       /\ g_outcome = [kind |-> "returned", val |-> g_response]
       /\ provider_calls = 1
       /\ "save_failed" \in g_log
       /\ g_write_failed = "open" => cache_store = g_store0
       /\ g_write_failed = "dump" => cache_store = CorruptStore
       /\ g_write_failed # "close" => g_prompt \notin DOMAIN LoadCache(cache_store)
  /\ (/\ Generated /\ g_use_cache /\ g_prev.use_cache
      /\ g_prev.write_failed \in {"open", "dump"} /\ g_prev.prompt = g_prompt) =>
       provider_calls = 1

C26_Witness ==
  /\ Generated /\ g_use_cache /\ g_prev.use_cache
  /\ g_prev.write_failed = "dump" /\ g_prev.prompt = "p" /\ g_prompt = "p"
  /\ g_prev.store = OkStore([x \in {"q"} |-> "s"])
  /\ g_store0 = CorruptStore
  /\ provider_calls = 1

\* C29 as stated: a rate-limit response is always followed by another request for
\* the path, however many came before, and never ends the call.
C29_RateLimitAlwaysReissued ==
  f_status = "rate_limit" => f_pc = "run"

\* C29: after a rate-limit response fetch_repository has slept until the reset time
\* has passed and is about to request the same path again, in a nested call whose
\* result the rate-limited call returns; the response itself is not returned or
\* raised.  The nesting is bounded by the interpreter's recursion limit: a
\* rate-limit response received at that depth ends the call with "Failed to fetch
\* repository" instead of another request.
C29_RateLimitReissuesUpToLimit ==
  f_status = "rate_limit" =>
    /\ f_now > f_reset
    /\ IF f_depth < RecursionLimit
       THEN /\ f_pc = "run" /\ f_outcome.kind = "none"
            /\ Len(f_stack) = f_depth + 1
            /\ Top = Frame(f_path, "request", <<>>)
            /\ f_stack[f_depth] = Frame(f_path, "tail", <<>>)
       ELSE /\ f_pc = "done"
            /\ f_outcome = [kind |-> "raised", val |-> "Failed to fetch repository",
                            cause |-> "RecursionError"]

C29_Witness ==
  /\ f_pc = "done" /\ f_outcome.kind = "returned" /\ f_outcome.val = {"a", "d/b"}
  /\ f_reissues = 1 /\ f_now = 3

\* the last phase call of the run raised out of the step: prep or post raised, or
\* exec_fallback raised the exception of the last attempt again
PhaseFailed ==
  /\ trace # <<>>
  /\ LET e == trace[Len(trace)]
     IN \/ e.ev \in {"prep_raise", "post_raise"}
        \/ e.ev = "fallback" /\ e.r = e.b

\* C27 as stated: outside the cache, no failure is swallowed, so a fetch_repository
\* call in which a download was answered with a failure does not return normally.
C27_OnlyCacheFailuresSwallowed ==
  (f_pc = "done" /\ f_failed # {}) => f_outcome.kind = "raised"

\* C27: a failed load or save of the cache never fails generate, and a failed
\* download of one file never fails fetch_repository (the file is left out of the
\* result); a provider failure in generate, a phase failure that leaves the step,
\* and a failure response other than a rate limit to a listing request end the
\* enclosing operation with an error.
C27_SwallowedAndSurfacedFailures ==
  /\ (Generated /\ g_use_cache /\ (g_read_failed \/ g_write_failed # "no") /\ g_response # None)
       => g_outcome = [kind |-> "returned", val |-> g_response]
  /\ (Generated /\ "generation_failed" \in g_log) => g_outcome.kind = "raised"
  /\ PhaseFailed => (pc = "idle" /\ outcome.kind = "raised")
  /\ f_status \in {"404", "500"} =>
       (f_pc = "done" /\ f_outcome.kind = "raised" /\ f_outcome.cause = f_status)
  /\ f_outcome.kind = "raised" => f_outcome.cause \in {"404", "500", "RecursionError"}
  /\ (f_pc = "done" /\ f_outcome.kind = "returned") =>
       (f_outcome.val = f_files /\ f_files \cap f_failed = {})

C27_Witness ==
  /\ f_pc = "done" /\ f_outcome.kind = "returned"
  /\ f_failed = {"a"} /\ f_outcome.val = {"d/b"}

C30_RunsWholeWorkflow ==
  t_pc = "done" => t_ran = Workflow

\* C31: a request whose validate_repo returned False is answered with status 400 and
\* the detail 'Invalid repository URL', and generate is not called for it.
C31_InvalidRepoAnswers400 ==
  [][validate_repo_fails("false") =>
       /\ e_response' = [status |-> 400, body |-> "Invalid repository URL"]
       /\ UNCHANGED <<t_pc, t_caller, t_shared, t_ran, t_prep_res, t_outcome>>]_vars

\* the visit in progress is past its prep calls
PrepDone == caller = "flow" /\ pc \notin {"idle", "loop", "prep1", "prep2"}

\* C32: in a visit by Flow.run prep has been called exactly twice on shared_data
\* before the first exec attempt, by run and then by _run; each call writes into
\* shared_data; every exec attempt and the post receive what the second call
\* returned, never what the first returned.
C32_PrepTwicePerVisit ==
  [][/\ PrepDone' =>
          /\ Cardinality(Preps') = 2
          /\ \A p \in Preps' : trace'[p].ctx = "shared_data"
          /\ \A i \in Attempts' \cup Posts' :
               /\ \A p \in Preps' : p < i
               /\ trace'[i].a = PrepValue(2)
          /\ prep_res' = PrepValue(2)
     /\ \A w \in Effects :
          (caller = "flow" /\ (flow_prep(w) \/ node_prep(w))) =>
            shared_data' = update(shared_data, w)]_vars

C32_Witness ==
  /\ caller = "flow" /\ pc = "select" /\ current = "A"
  /\ shared_data = [k1 |-> 2, k2 |-> 1]
  /\ Preps = {2, 3} /\ trace[2].r = PrepValue(1) /\ trace[3].r = PrepValue(2)
  /\ Len(trace) = 5 /\ trace[5].ev = "post" /\ trace[5].a = PrepValue(2)

\* C33: for a node with max_retries <= 0 the call of _exec goes straight from the
\* exhausted range to its end: it returns None and leaves cur_retry alone; the visit
\* holds no exec attempt, no sleep and no exec_fallback call; post is called with
\* exec result None and the run goes on to select a successor.
C33_NoAttemptsWithoutRetries ==
  [][/\ (pc = "for" /\ max_retries[current] <= 0) =>
          /\ for_exhausted
          /\ cur_retry' = cur_retry /\ exec_res' = None /\ pc' = "post"
          /\ exec_call'.status = "returned" /\ exec_call'.ret = None
     /\ (pc' # "idle" /\ current' # None /\ max_retries[current'] <= 0) =>
          /\ Attempts' = {} /\ Sleeps' = {} /\ Fallbacks' = {}
          /\ \A i \in Posts' : trace'[i].b = None
     /\ (current # None /\ max_retries[current] <= 0 /\ pc = "post") =>
          (pc' = "select" /\ outcome'.kind # "raised")]_vars

C33_Witness ==
  /\ pc = "idle" /\ outcome = [kind |-> "returned", val |-> "r2"]
  /\ max_retries["A"] = -1 /\ visited = <<"A", "B">> /\ cur_retry = [s \in Steps |-> 0]
  /\ exec_call = [node |-> "B", status |-> "returned", ret |-> None]

\* following first-registered edges from start reaches a step with an empty table
Terminating == Len(FirstEdgePath(start, Cardinality(Steps) + 1)) <= Cardinality(Steps)
\* the steps on the way there
FirstPath == FirstEdgePath(start, Cardinality(Steps))
Running == caller = "flow" /\ pc # "idle"
NoRepeat(seq) == \A i \in 1..Len(seq) : \A j \in 1..Len(seq) : seq[i] = seq[j] => i = j

\* C34: with label keys only and phases that return, a run returns only when the
\* first-edge path from start ends at a step with an empty table, and then it has
\* visited every step of that path once and history has grown by the path; a run
\* over such a path does return (when history has room for the path), and a run whose
\* first-edge path from start enters a cycle does not return and keeps appending to
\* history, up to any length.
C34_ReturnsIffPathEnds ==
  /\ []((pc = "idle" /\ outcome.kind = "returned") =>
          /\ Terminating
          /\ visited = FirstPath /\ NoRepeat(visited)
          /\ history = hist0 \o FirstPath)
  /\ (Running /\ Terminating /\ Len(hist0) + Len(FirstPath) <= MaxHist)
        ~> (pc = "idle" /\ outcome.kind = "returned")
  /\ (Running /\ ~Terminating) ~> (Running /\ Len(history) = MaxHist)

C34_Witness ==
  /\ Running /\ ~Terminating /\ Len(history) = MaxHist
  /\ successors["A"] = <<[action |-> "default", node |-> "B"]>>
  /\ successors["B"] = <<[action |-> "default", node |-> "A"]>>
  /\ visited = <<"A", "B", "A", "B">>

\* C35: the value of a chain a1 >> a2 >> ... is its last operand, a step; each >>
\* installs its right operand under "default" in the table of the operand just
\* before it and changes no other table; so a chain of distinct steps evaluated
\* over empty tables leaves exactly the edges from each operand to the next one.
C35_ChainValueIsLastOperand ==
  [][/\ \A other \in Steps :
          chain_rshift(other) =>
            /\ Installed(chain_ops[Len(chain_ops)], "default", other)
            /\ chain_val' = other
     /\ (chain_ops' # <<>>) =>
          /\ chain_val' = chain_ops'[Len(chain_ops')] /\ chain_val' \in Steps
          /\ (chain_fresh' /\ NoRepeat(chain_ops')) =>
               \A s \in Steps :
                 successors'[s] =
                   IF \E i \in 1..(Len(chain_ops') - 1) : chain_ops'[i] = s
                   THEN LET i == CHOOSE i \in 1..(Len(chain_ops') - 1) : chain_ops'[i] = s
                        IN <<[action |-> "default", node |-> chain_ops'[i + 1]]>>
                   ELSE <<>>]_vars

C35_Witness ==
  /\ chain_ops = <<"A", "B", "C">> /\ chain_fresh /\ chain_val = "C"
  /\ successors["A"] = <<[action |-> "default", node |-> "B"]>>
  /\ successors["B"] = <<[action |-> "default", node |-> "C"]>>
  /\ successors["C"] = <<>>

\* C36: run(shared) called on a step warns exactly when the step has an edge, and
\* runs that step alone: one prep, the attempts of _exec and one post, all on the
\* mapping passed in, which is where prep's write goes; it returns what post
\* returned; it enters no other step and leaves every table and the Flow's
\* shared_data, history and current_node as they were.
C36_DirectRunIsOneStep ==
  [][/\ \A s \in Steps, m \in Dicts :
          node_run(s, m) =>
            /\ warned' = (successors[s] # <<>>)
            /\ current' = s /\ node_shared' = m
            /\ UNCHANGED <<flowVars, successors>>
     /\ caller = "node" =>
          /\ UNCHANGED <<flowVars, successors, warned>>
          /\ current' \in {current, None}
          /\ \A i \in 1..Len(trace') : trace'[i].ctx = "shared" \/ caller' # "node"
          /\ Cardinality(Preps') <= 1 /\ Cardinality(Posts') <= 1
          /\ \A w \in Dicts : node_prep(w) => node_shared' = update(node_shared, w)
     /\ node_return =>
          /\ Cardinality(Preps) = 1 /\ Cardinality(Posts) = 1
          /\ \A i \in Posts : outcome' = [kind |-> "returned", val |-> trace[i].r]]_vars

C36_Witness ==
  /\ pc = "idle" /\ warned /\ outcome = [kind |-> "returned", val |-> "r2"]
  /\ successors["A"] = <<[action |-> "default", node |-> "B"]>>
  /\ exec_call.node = "A" /\ node_shared = [k2 |-> 1]
  /\ history = <<"A", "B">> /\ shared_data = [k1 |-> 1]

\* the keys of a table in scan order
KeyOrder(table) == [i \in 1..Len(table) |-> table[i].action]

\* C37: registering a key the table already holds leaves the keys of the table in
\* the order they had and puts the new target at the key's place; selection takes
\* the first entry in that order, so after a -> X, b -> Y, a -> Z it takes Z.
C37_ReRegisteredKeyKeepsPlace ==
  [][/\ \A t \in Steps :
          (rshift("A", t) /\ HasKey(successors["A"], "default")) =>
            /\ KeyOrder(successors'["A"]) = KeyOrder(successors["A"])
            /\ \A i \in 1..Len(successors["A"]) :
                 successors'["A"][i].node =
                   IF successors["A"][i].action = "default" THEN t ELSE successors["A"][i].node
     /\ \A t \in Steps :
          (ct_rshift(t) /\ HasKey(successors[cond.src], cond.action)) =>
            /\ KeyOrder(successors'[cond.src]) = KeyOrder(successors[cond.src])
            /\ \A i \in 1..Len(successors[cond.src]) :
                 successors'[cond.src][i].node =
                   IF successors[cond.src][i].action = cond.action THEN t
                   ELSE successors[cond.src][i].node
     /\ (select /\ successors[current] # <<>>) => current' = successors[current][1].node]_vars

C37_Witness ==
  /\ edges_registered = 3
  /\ successors["A"] = <<[action |-> "default", node |-> "C"], [action |-> "x", node |-> "B"]>>
  /\ sel.step = "A" /\ sel.edge = 1 /\ sel.node = "C" /\ current = "C"

\* the generate call missed the cache, on a store it could read and write
CleanMiss ==
  /\ Generated /\ g_use_cache /\ ~g_read_failed
  /\ g_response # None /\ g_write_failed = "no"

\* C38: a generate call with the cache on that misses, on a store it can read and
\* write, asks the provider once, returns the response r and leaves a store that
\* holds r under the prompt and every other entry the store held when it was read
\* again; the generate call that follows at once for the same prompt returns r
\* without asking the provider. A call with the cache off neither loads nor writes
\* the store and asks the provider once.
C38_MissStoresAndKeepsEntries ==
  [][/\ CleanMiss' =>
          /\ provider_calls' = 1 /\ store_writes' = 1
          /\ g_outcome' = [kind |-> "returned", val |-> g_response']
          /\ cache_store'.kind = "ok"
          /\ g_prompt' \in DOMAIN cache_store'.map
          /\ cache_store'.map[g_prompt'] = g_response'
     /\ (g_pc = "save" /\ CleanMiss') =>
          /\ DOMAIN cache_store'.map = DOMAIN LoadCache(cache_store) \cup {g_prompt}
          /\ \A k \in DOMAIN LoadCache(cache_store) \ {g_prompt} :
               cache_store'.map[k] = LoadCache(cache_store)[k]
     /\ (/\ Generated' /\ g_use_cache' /\ g_prev'.use_cache /\ g_prev'.prompt = g_prompt'
         /\ g_prev'.store.kind # "corrupt" /\ g_prev'.response # None
         /\ g_prev'.write_failed = "no") =>
          /\ g_outcome' = [kind |-> "returned", val |-> g_prev'.response]
          /\ provider_calls' = 0
     /\ (~g_use_cache' /\ g_pc' # "idle") =>
          /\ store_writes' = 0 /\ g_cache' = EmptyDict /\ ~g_read_failed'
          /\ g_pc' \in {"provider", "done"}
          /\ Generated' => provider_calls' = 1
          /\ (\A k \in Prompts, v \in Responses : ~other_writer(k, v)) =>
               cache_store' = cache_store]_vars

C38_Witness ==
  /\ Generated /\ g_use_cache /\ g_prompt = "p" /\ provider_calls = 0
  /\ g_outcome = [kind |-> "returned", val |-> "r"]
  /\ g_prev = [prompt |-> "p", use_cache |-> TRUE, write_failed |-> "no",
               store |-> AbsentStore, response |-> "r"]
  /\ cache_store = OkStore([x \in {"p", "q"} |-> IF x = "p" THEN "r" ELSE "s"])

====
